---- MODULE Spec2Model ----
(***************************************************************************)
(* Fix validation and patch application engine of the accessibility        *)
(* auditor: the span matcher (findInContent), the source patch writer      *)
(* (runPatchAgent) and the audit orchestrator (runAccessibilityAudit):     *)
(* the validation pass (Phase 2, with validateFix), the enriched report    *)
(* and the approval loop (Phase 3).                                        *)
(*                                                                         *)
(* A string is a sequence of one-character strings.  Offsets in the        *)
(* comments are the 0-based offsets of the TypeScript source; SubSeq is    *)
(* 1-based, so haystack.slice(i, j) is SubSeq(haystack, i + 1, j).         *)
(***************************************************************************)
EXTENDS Integers, Sequences, FiniteSets, TLC

VARIABLES
    \* ---- span matcher harness ----
    mpc,          \* "input" before the call, "done" after it
    haystack,     \* first argument of findInContent
    needle,       \* second argument of findInContent
    found,        \* value returned by findInContent (NULL for null)
    \* ---- source patch writer (runPatchAgent under main) ----
    ppc,          \* position of the run: "load", "walk", "scan", "prompt",
                  \* "summary", "exit0", "exit1"
    report,       \* the report file: status "missing", "invalid" (not JSON)
                  \* or "ok"; has: it has an approvedFixes key; approvedFixes
    dryRun,       \* --dry-run flag
    tree,         \* files under <source-dir> in enumeration order:
                  \* [dir, ext, content] each
    tree0,        \* the tree as it was when the run began (history)
    approvedFixes,\* report.approvedFixes || []
    sourceFiles,  \* walkDir(sourceDir, HTML_EXTENSIONS): indices into tree
    fixIdx,       \* loop variable i of the fix loop (1-based)
    pending,      \* [file, patched] awaiting the answer of askYesNo, or NoPending
    results,      \* PatchResult[]: [fix, file, applied, reason]
    writes,       \* history of fs.writeFileSync calls: [fix, file, before, after]
    ioFailedAt,   \* index of the fix during which a read or write threw (0: none)
    prompts,      \* history of the askYesNo prompts of the run: [fix, file,
                  \* answer], answer "pending" until the operator answers
    \* ---- audit orchestrator, Phases 2 and 3, and the fix validator ----
    apc,          \* position of runAccessibilityAudit: "loop" (head of the
                  \* Phase 2 loop), "call" (validateFix in flight),
                  \* "phase2done", "phase3" (head of the approval loop),
                  \* "aborted" (interrupted at a prompt), "done"
    issues,       \* report.issues
    issueIdx,     \* loop variable i of the Phase 2 loop (1-based)
    doc,          \* the live document: markup of each element
    docAtCall,    \* the live document when the current validateFix call began
                  \* (history)
    vstate,       \* state of the validator: "IDLE", "INJECTING", "CHECKING",
                  \* "REVERTING", "VALIDATED", "MANUAL", "ERROR", "THROWN"
    vargs,        \* arguments of the call: [selector, proposedCode, originalCode]
    velem,        \* element reference resolved at the start of the call (0: none)
    vviolations,  \* violations collected by the check after injection
    verror,       \* text of the exception that led to ERROR ("" if none)
    vresult,      \* ValidationResult of the call: [method, passed, reason]
    validatedIssues, \* ValidatedIssue[]: [issue, status, reason]
    doc0,         \* the live document when the validation pass began (history)
    vlog,         \* history of the validateFix calls of the pass: an entry
                  \* [ev, issue, result] when a call starts ("call"), returns
                  \* ("return") or throws ("throw")
    disk,         \* the report file in reports/: [validationResults]
    approvalIdx,  \* loop variable i of the Phase 3 loop (1-based)
    auditApprovedFixes, \* approvedFixes of runAccessibilityAudit (issue indices)
    approvalPrompts, \* history of the askYesNo prompts of Phase 3 (issue indices)
    spc,          \* position of an audit of a long report: "idle", "loop", "saved"
    reportLen,    \* report.issues.length of the long report
    pushed,       \* validatedIssues.length
    nValidated,   \* entries of validatedIssues with status "validated"
    nManual,      \* entries of validatedIssues with status "manual"
    savedSummary, \* validationResults.summary of the report file
    \* ---- shared browser (getStagehand, cleanup) under the audit script ----
    rpc,          \* position of main / runAccessibilityAudit: "generate",
                  \* "phases", "finally", "closing", "unwound", "exit0", "exit1"
    auditError,   \* an error is on its way from runAccessibilityAudit to main
    stagehandInstance, \* the module variable: 0 for null, else an instance
    inst,         \* state of every Stagehand constructed: "initializing",
                  \* "ready", "failed", "closed"
    tpc,          \* each tool execution in getStagehand: [at, on], at being
                  \* "idle", "awaitInit", "returned" or "threw", on the
                  \* instance whose init() it awaits
    handouts,     \* history of the values getStagehand returned
    cleanupCalls, \* number of calls of cleanup()
    cleanupOutcome, \* "none", "pending", "returned", "threw"
    \* ---- report tool (generate_accessibility_report) ----
    gpc,          \* "idle", "input" before execute, "done" or "threw" after it
    toolReport,   \* the report passed to execute: [issues, summary]
    finalSummary  \* summary of finalReport as written to reports/

matchVars == <<mpc, haystack, needle, found>>

patchVars == <<ppc, report, dryRun, tree, tree0, approvedFixes, sourceFiles,
               fixIdx, pending, results, writes, ioFailedAt, prompts>>

phase3Vars == <<disk, approvalIdx, auditApprovedFixes, approvalPrompts>>

auditVars == <<apc, issues, issueIdx, doc, docAtCall, vstate, vargs, velem,
               vviolations, verror, vresult, validatedIssues, doc0, vlog,
               phase3Vars>>

summaryVars == <<spc, reportLen, pushed, nValidated, nManual, savedSummary>>

browserVars == <<rpc, auditError, stagehandInstance, inst, tpc, handouts,
                 cleanupCalls, cleanupOutcome>>

reportVars == <<gpc, toolReport, finalSummary>>

vars == <<matchVars, patchVars, auditVars, summaryVars, browserVars, reportVars>>

-----------------------------------------------------------------------------
(* Bounds of the model *)

MaxHay == 5         \* longest haystack drawn for the span matcher
MaxNeedle == 3      \* longest needle drawn for the span matcher
NumFiles == 2       \* files in the source tree of a patch run
MaxFixes == 2       \* longest approvedFixes list of a patch run
NumElems == 2       \* elements of the live document
MaxIssues == 2      \* longest report.issues list of an audit
MaxTotal == 40      \* longest report.issues list whose summary is computed
NumTools == 3       \* tool executions of an audit that call getStagehand
MaxReportIssues == 2 \* longest issues list passed to the report tool
MaxPassed == 23     \* largest passedChecks passed to the report tool

-----------------------------------------------------------------------------
(* Characters and strings *)

\* Characters matched by \s in normalizeWs (and removed by trim()).
WS == {" ", "\t"}

\* The characters the span matcher's inputs are drawn from: a letter and two
\* kinds of whitespace.
Alphabet == {"a", " ", "\t"}

\* null, as returned by findInContent: a value that is no string over Alphabet.
NULL == <<"<null>">>

Strings(n) == UNION {[1..k -> Alphabet] : k \in 0..n}

\* s.slice(i, j) for 0 <= i <= j <= s.length
slice(s, i, j) == SubSeq(s, i + 1, j)

\* h.includes(n)
includes(h, n) ==
    \E i \in 0..(Len(h) - Len(n)) : slice(h, i, i + Len(n)) = n

\* s.replace(/\s+/g, " "): every maximal whitespace run becomes one space.
RECURSIVE collapseWs(_)
collapseWs(s) ==
    IF s = <<>> THEN <<>>
    ELSE IF Head(s) \in WS
         THEN IF Len(s) > 1 /\ s[2] \in WS
              THEN collapseWs(Tail(s))
              ELSE <<" ">> \o collapseWs(Tail(s))
         ELSE <<Head(s)>> \o collapseWs(Tail(s))

\* s.trim(): strip leading and trailing whitespace.
RECURSIVE trimStart(_)
trimStart(s) ==
    IF s # <<>> /\ Head(s) \in WS THEN trimStart(Tail(s)) ELSE s

RECURSIVE trimEnd(_)
trimEnd(s) ==
    IF s # <<>> /\ s[Len(s)] \in WS THEN trimEnd(SubSeq(s, 1, Len(s) - 1)) ELSE s

trim(s) == trimEnd(trimStart(s))

\* Faulty variant of normalizeWs: deletes whitespace runs instead of collapsing them.
normalizeWsStrip(s) == SelectSeq(s, LAMBDA c : c \notin WS)

normalizeWs(s) == trim(collapseWs(s))

\* The inner loop of findInContent: for (j = from; j <= haystack.length; j++),
\* returning the first slice that normalises to normalNeedle, or NULL.
RECURSIVE scanEnd(_, _, _, _)
scanEnd(h, normalNeedle, i, j) ==
    IF j > Len(h) THEN NULL
    ELSE IF normalizeWs(slice(h, i, j)) = normalNeedle
         THEN slice(h, i, j)
         ELSE scanEnd(h, normalNeedle, i, j + 1)

\* Faulty variant of innerStart: the inner scan starts one offset too late.
innerStartLate(i, normalNeedle) == i + Len(normalNeedle) + 1

\* First end offset the inner loop tries: j = i + normalNeedle.length.
innerStart(i, normalNeedle) == i + Len(normalNeedle)

\* Faulty variant of outerEnd: the outer scan stops one offset too early.
outerEndShort(h) == Len(h) - 1

\* Bound of the outer loop: i < haystack.length.
outerEnd(h) == Len(h)

\* The outer loop: for (i = from; i < haystack.length; i++).
RECURSIVE scanStart(_, _, _)
scanStart(h, normalNeedle, i) ==
    IF i >= outerEnd(h) THEN NULL
    ELSE LET r == scanEnd(h, normalNeedle, i, innerStart(i, normalNeedle))
         IN  IF r # NULL THEN r ELSE scanStart(h, normalNeedle, i + 1)

\* Faulty variant of exactMatch: the verbatim test is skipped.
exactMatchNever(h, n) == FALSE

\* Step 1 of findInContent: haystack.includes(needle).
exactMatch(h, n) == includes(h, n)

findInContent(h, n) ==
    IF exactMatch(h, n) THEN n
    ELSE LET normalNeedle == normalizeWs(n)
             normalHaystack == normalizeWs(h)
         IN  IF ~includes(normalHaystack, normalNeedle) THEN NULL
             ELSE scanStart(h, normalNeedle, 0)

-----------------------------------------------------------------------------
(* The three components are checked one at a time; while one runs, the
   variables of the other two rest at these values. *)

NoPending == [file |-> 0, patched |-> <<>>]

NoResult == [method |-> "", passed |-> FALSE, reason |-> ""]

NoArgs == [selector |-> "", proposedCode |-> "", originalCode |-> ""]

\* validationResults of a report that has none.
NoValidationResults ==
    [summary |-> [total |-> 0, validated |-> 0, manual |-> 0, validatedPct |-> 0],
     issues |-> <<>>]

\* No report file.
NoReport ==
    [saved |-> FALSE, enriched |-> FALSE, validationResults |-> NoValidationResults,
     has |-> FALSE, approvedFixes |-> <<>>]

MatchIdle ==
    /\ mpc = "idle"
    /\ haystack = <<>>
    /\ needle = <<>>
    /\ found = NULL

PatchIdle ==
    /\ ppc = "idle"
    /\ report = [status |-> "missing", has |-> FALSE, approvedFixes |-> <<>>]
    /\ dryRun = FALSE
    /\ tree = <<>>
    /\ tree0 = <<>>
    /\ approvedFixes = <<>>
    /\ sourceFiles = <<>>
    /\ fixIdx = 0
    /\ pending = NoPending
    /\ results = <<>>
    /\ writes = <<>>
    /\ ioFailedAt = 0
    /\ prompts = <<>>

AuditIdle ==
    /\ apc = "idle"
    /\ issues = <<>>
    /\ issueIdx = 0
    /\ doc = <<>>
    /\ docAtCall = <<>>
    /\ vstate = "IDLE"
    /\ vargs = NoArgs
    /\ velem = 0
    /\ vviolations = <<>>
    /\ verror = ""
    /\ vresult = NoResult
    /\ validatedIssues = <<>>
    /\ doc0 = <<>>
    /\ vlog = <<>>
    /\ disk = NoReport
    /\ approvalIdx = 0
    /\ auditApprovedFixes = <<>>
    /\ approvalPrompts = <<>>

SummaryIdle ==
    /\ spc = "idle"
    /\ reportLen = 0
    /\ pushed = 0
    /\ nValidated = 0
    /\ nManual = 0
    /\ savedSummary = NoValidationResults.summary

BrowserIdle ==
    /\ rpc = "idle"
    /\ auditError = FALSE
    /\ stagehandInstance = 0
    /\ inst = <<>>
    /\ tpc = [t \in 1..NumTools |-> [at |-> "idle", on |-> 0]]
    /\ handouts = <<>>
    /\ cleanupCalls = 0
    /\ cleanupOutcome = "none"

NoSummary ==
    [totalAffectedElements |-> 0,
     categoryBreakdown |-> [content |-> 0, cognitive |-> 0, visual |-> 0,
                            motor |-> 0, structural |-> 0],
     complianceScore |-> 0,
     verdict |-> "non-compliant",
     passedChecks |-> 0]

ReportIdle ==
    /\ gpc = "idle"
    /\ toolReport = [issues |-> <<>>, summary |-> NoSummary]
    /\ finalSummary = NoSummary

-----------------------------------------------------------------------------
(* Source patch writer: file discovery *)

HTML_EXTENSIONS == {".html", ".htm", ".xhtml"}

SKIP_DIRS == {"node_modules", ".git", "dist", "build", ".next", "coverage"}

\* path.extname(entry).toLowerCase(), on the extensions the model draws.
toLowerCase(ext) ==
    CASE ext = ".HTM" -> ".htm"
      [] ext = ".HTML" -> ".html"
      [] OTHER -> ext

\* Faulty variant of isCandidate: directories named in SKIP_DIRS are walked too.
isCandidateNoSkip(f) == toLowerCase(f.ext) \in HTML_EXTENSIONS

\* A file is returned by walkDir iff no directory on its path below the
\* source root (dir[1], whose own name walkDir does not test) is skipped and
\* its lower-cased extension is an HTML extension.
isCandidate(f) ==
    /\ \A k \in 2..Len(f.dir) : f.dir[k] \notin SKIP_DIRS
    /\ toLowerCase(f.ext) \in HTML_EXTENSIONS

\* walkDir(dir, exts): the candidate files, in enumeration order.
RECURSIVE walkDir(_, _)
walkDir(t, k) ==
    IF k > Len(t) THEN <<>>
    ELSE (IF isCandidate(t[k]) THEN <<k>> ELSE <<>>) \o walkDir(t, k + 1)

-----------------------------------------------------------------------------
(* Source patch writer: matching and replacing *)

\* JavaScript truthiness of a findInContent result: null and "" are falsy.
truthy(r) == r # NULL /\ r # <<>>

\* original.indexOf(pat): 0-based offset of the first occurrence (pat occurs).
indexOf(original, pat) ==
    CHOOSE i \in 0..(Len(original) - Len(pat)) :
        /\ slice(original, i, i + Len(pat)) = pat
        /\ \A k \in 0..(i - 1) : slice(original, k, k + Len(pat)) # pat

\* GetSubstitution for a string pattern (no captures): $$ is a dollar sign,
\* $& the matched text, $` the text before it, $' the text after it; every
\* other character, a lone $ included, stands for itself.
RECURSIVE expand(_, _, _, _)
expand(repl, matched, before, after) ==
    IF repl = <<>> THEN <<>>
    ELSE IF Head(repl) = "$" /\ Len(repl) > 1 /\ repl[2] \in {"$", "&", "`", "'"}
         THEN (CASE repl[2] = "$" -> <<"$">>
                 [] repl[2] = "&" -> matched
                 [] repl[2] = "`" -> before
                 [] repl[2] = "'" -> after)
              \o expand(Tail(Tail(repl)), matched, before, after)
         ELSE <<Head(repl)>> \o expand(Tail(repl), matched, before, after)

\* original.replace(pat, repl) with a string pattern: the first occurrence only.
replace(original, pat, repl) ==
    IF ~includes(original, pat) THEN original
    ELSE LET i == indexOf(original, pat)
             before == slice(original, 0, i)
             after == slice(original, i + Len(pat), Len(original))
         IN  before \o expand(repl, pat, before, after) \o after

\* Faulty variant of firstMatch: the scan keeps going and the last matching file wins.
RECURSIVE lastMatch(_, _, _, _)
lastMatch(t, files, cur, k) ==
    IF k > Len(files) THEN 0
    ELSE LET later == lastMatch(t, files, cur, k + 1)
         IN  IF later # 0 THEN later
             ELSE IF truthy(findInContent(t[files[k]].content, cur)) THEN k ELSE 0

\* The file loop of runPatchAgent: position in sourceFiles of the first file
\* in which findInContent finds currentCode, 0 when the loop ends unmatched.
RECURSIVE firstMatch(_, _, _, _)
firstMatch(t, files, cur, k) ==
    IF k > Len(files) THEN 0
    ELSE IF truthy(findInContent(t[files[k]].content, cur)) THEN k
         ELSE firstMatch(t, files, cur, k + 1)

-----------------------------------------------------------------------------
(* Source patch writer: inputs *)

\* Where a file of the tree can live: a page, a page with an upper-case
\* extension, a page under a skipped directory, a script.
FileKinds ==
    { [dir |-> <<"site">>, ext |-> ".html"],
      [dir |-> <<"site">>, ext |-> ".HTM"],
      [dir |-> <<"site", "node_modules">>, ext |-> ".html"],
      [dir |-> <<"site">>, ext |-> ".js"] }

FileContents ==
    { <<"a", " ", "b">>,            \* "a b"
      <<" ", "a", " ", " ", "b">>,  \* " a  b"
      <<"b">> }

\* Approved fixes: [currentCode, suggestedFix].
FixPool ==
    { [currentCode |-> <<"a", " ", "b">>, suggestedFix |-> <<"b">>],
      [currentCode |-> <<"a">>, suggestedFix |-> <<"$", "&", "a">>],
      [currentCode |-> <<" ">>, suggestedFix |-> <<"a">>] }

\* The files drawn: the pages in the source root with every content, the
\* page under the skipped directory and the script with the first content
\* only.
Files ==
    {[dir |-> k.dir, ext |-> k.ext, content |-> c] :
        k \in {x \in FileKinds : x.dir = <<"site">> /\ x.ext # ".js"},
        c \in FileContents}
    \cup {[dir |-> k.dir, ext |-> k.ext, content |-> <<"a", " ", "b">>] :
            k \in {x \in FileKinds : x.dir # <<"site">> \/ x.ext = ".js"}}

Trees == [1..NumFiles -> Files]

FixLists == UNION {[1..n -> FixPool] : n \in 0..MaxFixes}

\* The report file: absent, not JSON, JSON without approvedFixes, or with it.
Reports ==
    {[status |-> st, has |-> FALSE, approvedFixes |-> <<>>] :
        st \in {"missing", "invalid", "ok"}}
    \cup {[status |-> "ok", has |-> TRUE, approvedFixes |-> l] : l \in FixLists}

PatchResult(i, file, applied, reason) ==
    [fix |-> i, file |-> file, applied |-> applied, reason |-> reason]

-----------------------------------------------------------------------------
(* Source patch writer: main and runPatchAgent *)

PatchInit ==
    /\ MatchIdle
    /\ AuditIdle
    /\ SummaryIdle
    /\ BrowserIdle
    /\ ReportIdle
    /\ ppc = "load"
    /\ report \in Reports
    /\ dryRun \in BOOLEAN
    /\ tree \in Trees
    /\ tree0 = tree
    /\ approvedFixes = <<>>
    /\ sourceFiles = <<>>
    /\ fixIdx = 0
    /\ pending = NoPending
    /\ results = <<>>
    /\ writes = <<>>
    /\ ioFailedAt = 0
    /\ prompts = <<>>

\* Faulty variant of loadFailureExit: the run ends with exit code 0.
loadFailureExitZero == "exit0"

\* How the run ends when the report cannot be loaded: process.exit(1), in
\* runPatchAgent (report missing) or in the catch clause of main.
loadFailureExit == "exit1"

\* Report missing: process.exit(1).  Report not JSON: JSON.parse throws, main
\* catches and exits 1.
LoadReportFails ==
    /\ ppc = "load"
    /\ report.status \in {"missing", "invalid"}
    /\ ppc' = loadFailureExit
    /\ UNCHANGED <<report, dryRun, tree, tree0, approvedFixes, sourceFiles,
                   fixIdx, pending, results, writes, ioFailedAt, prompts, matchVars,
                   auditVars, summaryVars, browserVars, reportVars>>

\* report.approvedFixes || [] for a parsed report r: has says whether r has
\* an approvedFixes key.
loadApprovedFixes(r) == IF r.has THEN r.approvedFixes ELSE <<>>

\* approvedFixes = report.approvedFixes || []; an empty list ends the run
\* with process.exit(0).
LoadReport ==
    /\ ppc = "load"
    /\ report.status = "ok"
    /\ approvedFixes' = loadApprovedFixes(report)
    /\ ppc' = (IF Len(approvedFixes') = 0 THEN "exit0" ELSE "walk")
    /\ UNCHANGED <<report, dryRun, tree, tree0, sourceFiles, fixIdx, pending,
                   results, writes, ioFailedAt, prompts, matchVars,
                   auditVars, summaryVars, browserVars, reportVars>>

\* sourceFiles = walkDir(...); no candidate file ends the run with
\* process.exit(0).
WalkSource ==
    /\ ppc = "walk"
    /\ sourceFiles' = walkDir(tree, 1)
    /\ IF Len(sourceFiles') = 0
       THEN ppc' = "exit0" /\ fixIdx' = fixIdx
       ELSE ppc' = "scan" /\ fixIdx' = 1
    /\ UNCHANGED <<report, dryRun, tree, tree0, approvedFixes, pending,
                   results, writes, ioFailedAt, prompts, matchVars,
                   auditVars, summaryVars, browserVars, reportVars>>

\* The files the file loop reads for the current fix: up to the first match.
filesRead(m) == IF m = 0 THEN Len(sourceFiles) ELSE m

\* The loop moves on to the next fix, or to the summary after the last one.
advance ==
    /\ fixIdx' = fixIdx + 1
    /\ ppc' = (IF fixIdx + 1 > Len(approvedFixes) THEN "summary" ELSE "scan")

\* fs.readFileSync throws for one of the files the loop reads: nothing in
\* runPatchAgent catches it, main does and exits 1.
ScanReadFails ==
    /\ ppc = "scan"
    /\ LET m == firstMatch(tree, sourceFiles, approvedFixes[fixIdx].currentCode, 1)
       IN  \E k \in 1..filesRead(m) : TRUE
    /\ ioFailedAt' = fixIdx
    /\ ppc' = "exit1"
    /\ UNCHANGED <<report, dryRun, tree, tree0, approvedFixes, sourceFiles,
                   fixIdx, pending, results, writes, prompts, matchVars,
                   auditVars, summaryVars, browserVars, reportVars>>

\* The file loop finds no file with a match: the fix is reported not found.
ScanNotFound ==
    /\ ppc = "scan"
    /\ firstMatch(tree, sourceFiles, approvedFixes[fixIdx].currentCode, 1) = 0
    /\ results' = Append(results,
                    PatchResult(fixIdx, 0, FALSE, "currentCode not found in any file"))
    /\ advance
    /\ UNCHANGED <<report, dryRun, tree, tree0, approvedFixes, sourceFiles,
                   pending, writes, ioFailedAt, prompts, matchVars,
                   auditVars, summaryVars, browserVars, reportVars>>

\* The patched content of the first matching file.
patchedContent(m) ==
    LET fix == approvedFixes[fixIdx]
        original == tree[sourceFiles[m]].content
    IN  replace(original, findInContent(original, fix.currentCode), fix.suggestedFix)

\* Faulty variant of dryRunWrites: a dry run writes the patched file all the same.
dryRunWritesPatched(m) ==
    [tree EXCEPT ![sourceFiles[m]].content = patchedContent(m)]

\* What a dry run leaves on disk for a matched fix: it writes nothing.
dryRunWrites(m) == tree

\* Dry run, first match found: preview, record "dry-run", break.
ScanMatchDryRun ==
    /\ ppc = "scan"
    /\ dryRun
    /\ LET m == firstMatch(tree, sourceFiles, approvedFixes[fixIdx].currentCode, 1)
       IN  /\ m # 0
           /\ results' = Append(results,
                           PatchResult(fixIdx, sourceFiles[m], FALSE, "dry-run"))
           /\ tree' = dryRunWrites(m)
    /\ advance
    /\ UNCHANGED <<report, dryRun, tree0, approvedFixes, sourceFiles, pending,
                   writes, ioFailedAt, prompts, matchVars,
                   auditVars, summaryVars, browserVars, reportVars>>

\* Live run, first match found: preview, then askYesNo is awaited.
ScanMatchLive ==
    /\ ppc = "scan"
    /\ ~dryRun
    /\ LET m == firstMatch(tree, sourceFiles, approvedFixes[fixIdx].currentCode, 1)
       IN  /\ m # 0
           /\ pending' = [file |-> sourceFiles[m], patched |-> patchedContent(m)]
           /\ prompts' = Append(prompts, [fix |-> fixIdx, file |-> sourceFiles[m],
                                          answer |-> "pending"])
    /\ ppc' = "prompt"
    /\ UNCHANGED <<report, dryRun, tree, tree0, approvedFixes, sourceFiles,
                   fixIdx, results, writes, ioFailedAt, matchVars, auditVars, summaryVars, browserVars, reportVars>>

\* The history of prompts with the answer to the last one filled in.
answered(answer) == [prompts EXCEPT ![Len(prompts)].answer = answer]

\* The operator confirms and fs.writeFileSync succeeds.
ConfirmWrite ==
    /\ ppc = "prompt"
    /\ prompts' = answered("yes")
    /\ tree' = [tree EXCEPT ![pending.file].content = pending.patched]
    /\ writes' = Append(writes, [fix |-> fixIdx, file |-> pending.file,
                                 before |-> tree, after |-> tree'])
    /\ results' = Append(results, PatchResult(fixIdx, pending.file, TRUE, ""))
    /\ pending' = NoPending
    /\ advance
    /\ UNCHANGED <<report, dryRun, tree0, approvedFixes, sourceFiles,
                   ioFailedAt, matchVars, auditVars, summaryVars, browserVars, reportVars>>

\* The operator confirms and fs.writeFileSync throws: main exits 1.
ConfirmWriteFails ==
    /\ ppc = "prompt"
    /\ prompts' = answered("yes")
    /\ ioFailedAt' = fixIdx
    /\ pending' = NoPending
    /\ ppc' = "exit1"
    /\ UNCHANGED <<report, dryRun, tree, tree0, approvedFixes, sourceFiles,
                   fixIdx, results, writes, matchVars, auditVars, summaryVars, browserVars, reportVars>>

\* Faulty variant of declineWrites: the patched file is written although the
\* operator answered n.
declineWritesPatched == [tree EXCEPT ![pending.file].content = pending.patched]

\* What the else branch of "if (confirm)" leaves on disk: it writes nothing.
declineWrites == tree

\* The operator answers n: nothing is written, the fix is recorded skipped.
Decline ==
    /\ ppc = "prompt"
    /\ prompts' = answered("no")
    /\ tree' = declineWrites
    /\ results' = Append(results,
                    PatchResult(fixIdx, pending.file, FALSE, "skipped by user"))
    /\ pending' = NoPending
    /\ advance
    /\ UNCHANGED <<report, dryRun, tree0, approvedFixes, sourceFiles,
                   writes, ioFailedAt, matchVars, auditVars, summaryVars, browserVars, reportVars>>

\* The lists the summary counts: results.filter(...).
applied == SelectSeq(results, LAMBDA r : r.applied)

\* "currentCode not found in any file" is the only reason that includes
\* "not found".
notFound ==
    SelectSeq(results, LAMBDA r : ~r.applied /\ r.reason = "currentCode not found in any file")

dryruns == SelectSeq(results, LAMBDA r : r.reason = "dry-run")

skipped == SelectSeq(results, LAMBDA r : ~r.applied /\ r.reason = "skipped by user")

\* The summary is printed, runPatchAgent returns and main exits 0.
Summary ==
    /\ ppc = "summary"
    /\ ppc' = "exit0"
    /\ UNCHANGED <<report, dryRun, tree, tree0, approvedFixes, sourceFiles,
                   fixIdx, pending, results, writes, ioFailedAt, prompts, matchVars,
                   auditVars, summaryVars, browserVars, reportVars>>

PatchNext ==
    \/ LoadReportFails
    \/ LoadReport
    \/ WalkSource
    \/ ScanReadFails
    \/ ScanNotFound
    \/ ScanMatchDryRun
    \/ ScanMatchLive
    \/ ConfirmWrite
    \/ ConfirmWriteFails
    \/ Decline
    \/ Summary

SpecPatch == PatchInit /\ [][PatchNext]_vars

-----------------------------------------------------------------------------
(* Span matcher: inputs drawn from the bounded strings, one call *)

MatchInit ==
    /\ PatchIdle
    /\ AuditIdle
    /\ SummaryIdle
    /\ BrowserIdle
    /\ ReportIdle
    /\ mpc = "input"
    /\ haystack \in Strings(MaxHay)
    /\ needle \in Strings(MaxNeedle)
    /\ found = NULL

CallFindInContent ==
    /\ mpc = "input"
    /\ found' = findInContent(haystack, needle)
    /\ mpc' = "done"
    /\ UNCHANGED <<haystack, needle, patchVars, auditVars, summaryVars, browserVars, reportVars>>

MatchNext == CallFindInContent

SpecMatch == MatchInit /\ [][MatchNext]_vars

-----------------------------------------------------------------------------
(* The live document, the selectors and the accessibility checker *)

\* Markup an element of the document can have when the audit begins.
Markups == {"<img>", "<img alt>", "<div>"}

Selectors == {"img", "img:not([alt])", "#missing"}

\* Whether an element with markup m is matched by selector sel.
selectorMatches(sel, m) ==
    CASE sel = "img" -> m \in {"<img>", "<img alt>", "<img title>"}
      [] sel = "img:not([alt])" -> m \in {"<img>", "<img title>"}
      [] OTHER -> FALSE

\* Element resolution by selector: the first matching element in document
\* order, 0 when the selector does not resolve.
resolveSelector(d, sel) ==
    IF \E e \in 1..Len(d) : selectorMatches(sel, d[e])
    THEN CHOOSE e \in 1..Len(d) :
            /\ selectorMatches(sel, d[e])
            /\ \A g \in 1..(e - 1) : ~selectorMatches(sel, d[g])
    ELSE 0

\* runAccessibilityChecks(scope): the violations the checker reports for the
\* markup in scope, by rule identifier, in the order it reports them.
runAccessibilityChecks(m) ==
    CASE m = "<img>" -> <<"image-alt", "region">>
      [] m = "<img title>" -> <<"region", "image-alt">>
      [] m = "<div>" -> <<"region">>
      [] OTHER -> <<>>

\* The issue's original rules: what the checker reports for originalCode.
originalRules(args) ==
    LET v == runAccessibilityChecks(args.originalCode)
    IN  {v[n] : n \in 1..Len(v)}

\* The violations of a check that match the issue's original rules.
surviving(violations, args) ==
    SelectSeq(violations, LAMBDA r : r \in originalRules(args))

\* Faulty variant of failReason: the last survivor is named.
failReasonLast(survivors) == survivors[Len(survivors)]

\* The reason of a failed validation: the first surviving violation.
failReason(survivors) == survivors[1]

-----------------------------------------------------------------------------
(* Fix validator: validateFix(selector, proposedCode, originalCode) *)

ValidationResult(method, passed, reason) ==
    [method |-> method, passed |-> passed, reason |-> reason]

\* Faulty variant of skippedResult: the unresolved selector is reported as passed.
skippedResultPassed == ValidationResult("skipped", TRUE, "element not found")

\* The result for a selector that does not resolve.
skippedResult == ValidationResult("skipped", FALSE, "element not found")

\* Faulty variant of validateFixArgs: proposed and original code change places.
validateFixArgsSwapped(issue) ==
    [selector |-> issue.element,
     proposedCode |-> issue.currentCode,
     originalCode |-> issue.suggestedFix]

\* The arguments runAccessibilityAudit passes:
\* validateFix(issue.element, issue.suggestedFix, issue.currentCode).
validateFixArgs(issue) ==
    [selector |-> issue.element,
     proposedCode |-> issue.suggestedFix,
     originalCode |-> issue.currentCode]

\* An entry of the call history.
LogEntry(ev, i, result) == [ev |-> ev, issue |-> i, result |-> result]

\* Faulty variant of revertTarget: the selector is resolved again, in the
\* document as the injection left it.
revertTargetResolvedAgain == resolveSelector(doc, vargs.selector)

\* The element the revert step writes to: the reference resolved at the
\* start of the call.
revertTarget == velem

\* The document with originalCode restored onto that element.
reverted ==
    IF revertTarget = 0
    THEN doc
    ELSE [doc EXCEPT ![revertTarget] = vargs.originalCode]

\* Faulty variant of awaited: the loop does not wait for the call it made.
notAwaited == apc \in {"loop", "call"}

\* The loop body runs "await validateFix(...)": the loop is at its head only
\* when the call of the turn before has settled.
awaited == apc = "loop"

\* IDLE: the Phase 2 loop calls validateFix for the next issue.  The selector
\* is resolved; unresolved, the call goes straight to MANUAL with the skipped
\* result and mutates nothing.
CallValidateFix ==
    /\ awaited
    /\ issueIdx <= Len(issues)
    /\ apc' = "call"
    /\ vargs' = validateFixArgs(issues[issueIdx])
    /\ docAtCall' = doc
    /\ velem' = resolveSelector(doc, vargs'.selector)
    /\ IF velem' = 0
       THEN vstate' = "MANUAL" /\ vresult' = skippedResult
       ELSE vstate' = "INJECTING" /\ vresult' = NoResult
    /\ vviolations' = <<>>
    /\ verror' = ""
    /\ vlog' = Append(vlog, LogEntry("call", issueIdx, NoResult))
    /\ UNCHANGED <<issues, issueIdx, doc, validatedIssues, doc0, phase3Vars, matchVars,
                   patchVars, summaryVars, browserVars, reportVars>>

\* INJECTING -> CHECKING: the element's entire markup becomes proposedCode,
\* in one mutation.
Inject ==
    /\ apc = "call"
    /\ vstate = "INJECTING"
    /\ doc' = [doc EXCEPT ![velem] = vargs.proposedCode]
    /\ vstate' = "CHECKING"
    /\ UNCHANGED <<apc, issues, issueIdx, docAtCall, vargs, velem, vviolations,
                   verror, vresult, validatedIssues, doc0, vlog, phase3Vars, matchVars,
                   patchVars, summaryVars, browserVars, reportVars>>

\* An exception during INJECTING: the mutation is atomic, so it has either
\* happened or not.
InjectThrows ==
    /\ apc = "call"
    /\ vstate = "INJECTING"
    /\ \E done \in BOOLEAN :
          doc' = (IF done THEN [doc EXCEPT ![velem] = vargs.proposedCode] ELSE doc)
    /\ verror' = "injection failed"
    /\ vstate' = "ERROR"
    /\ UNCHANGED <<apc, issues, issueIdx, docAtCall, vargs, velem, vviolations,
                   vresult, validatedIssues, doc0, vlog, phase3Vars, matchVars,
                   patchVars, summaryVars, browserVars, reportVars>>

\* CHECKING -> REVERTING: the checker has run on the affected subtree and its
\* violations are collected; then, pass or fail, originalCode is restored
\* onto the element reference resolved at the start.
CheckAndRevert ==
    /\ apc = "call"
    /\ vstate = "CHECKING"
    /\ vviolations' = runAccessibilityChecks(doc[velem])
    /\ doc' = reverted
    /\ vstate' = "REVERTING"
    /\ UNCHANGED <<apc, issues, issueIdx, docAtCall, vargs, velem, verror,
                   vresult, validatedIssues, doc0, vlog, phase3Vars, matchVars,
                   patchVars, summaryVars, browserVars, reportVars>>

\* An exception during CHECKING: the checker failed, nothing is restored yet.
CheckThrows ==
    /\ apc = "call"
    /\ vstate = "CHECKING"
    /\ verror' = "check failed"
    /\ vstate' = "ERROR"
    /\ UNCHANGED <<apc, issues, issueIdx, doc, docAtCall, vargs, velem,
                   vviolations, vresult, validatedIssues, doc0, vlog, phase3Vars, matchVars,
                   patchVars, summaryVars, browserVars, reportVars>>

\* REVERTING -> VALIDATED | MANUAL: passed iff no surviving violation matches
\* the issue's original rule; otherwise the reason names the first survivor.
Classify ==
    /\ apc = "call"
    /\ vstate = "REVERTING"
    /\ LET survivors == surviving(vviolations, vargs)
       IN  IF survivors = <<>>
           THEN /\ vstate' = "VALIDATED"
                /\ vresult' = ValidationResult("dom-injection", TRUE, "")
           ELSE /\ vstate' = "MANUAL"
                /\ vresult' = ValidationResult("dom-injection", FALSE,
                                               failReason(survivors))
    /\ UNCHANGED <<apc, issues, issueIdx, doc, docAtCall, vargs, velem,
                   vviolations, verror, validatedIssues, doc0, vlog, phase3Vars, matchVars,
                   patchVars, summaryVars, browserVars, reportVars>>

\* An exception during REVERTING, after the restore.
RevertThrows ==
    /\ apc = "call"
    /\ vstate = "REVERTING"
    /\ verror' = "revert failed"
    /\ vstate' = "ERROR"
    /\ UNCHANGED <<apc, issues, issueIdx, doc, docAtCall, vargs, velem,
                   vviolations, vresult, validatedIssues, doc0, vlog, phase3Vars, matchVars,
                   patchVars, summaryVars, browserVars, reportVars>>

\* ERROR: the revert step is executed, then the failure is converted to a
\* MANUAL classification whose reason is the exception text ...
ErrorToManual ==
    /\ apc = "call"
    /\ vstate = "ERROR"
    /\ doc' = reverted
    /\ vstate' = "MANUAL"
    /\ vresult' = ValidationResult("dom-injection", FALSE, verror)
    /\ UNCHANGED <<apc, issues, issueIdx, docAtCall, vargs, velem, vviolations,
                   verror, validatedIssues, doc0, vlog, phase3Vars, matchVars,
                   patchVars, summaryVars, browserVars, reportVars>>

\* ... or propagated to the caller, after the revert step as well.
ErrorPropagates ==
    /\ apc = "call"
    /\ vstate = "ERROR"
    /\ doc' = reverted
    /\ vstate' = "THROWN"
    /\ UNCHANGED <<apc, issues, issueIdx, docAtCall, vargs, velem, vviolations,
                   verror, vresult, validatedIssues, doc0, vlog, phase3Vars, matchVars,
                   patchVars, summaryVars, browserVars, reportVars>>

-----------------------------------------------------------------------------
(* Audit orchestrator: the Phase 2 loop of runAccessibilityAudit *)

ValidatedIssue(i, status, reason) ==
    [issue |-> i, status |-> status, reason |-> reason]

\* Faulty variant of classifyResult: result.passed is not looked at.
classifyResultUnchecked(i, result) ==
    IF result.method = "skipped"
    THEN ValidatedIssue(i, "manual", result.reason)
    ELSE ValidatedIssue(i, "validated", "")

\* What the loop pushes for a result that validateFix returned.
classifyResult(i, result) ==
    IF result.method = "skipped"
    THEN ValidatedIssue(i, "manual", result.reason)
    ELSE IF result.passed
         THEN ValidatedIssue(i, "validated", "")
         ELSE ValidatedIssue(i, "manual", result.reason)

\* Faulty variant of push: the entry is dropped.
pushNothing(entry) == validatedIssues

\* validatedIssues.push(entry)
push(entry) == Append(validatedIssues, entry)

\* validateFix returned: the result is classified and pushed, the loop goes on.
ValidateFixReturns ==
    /\ apc = "call"
    /\ vstate \in {"VALIDATED", "MANUAL"}
    /\ validatedIssues' = push(classifyResult(issueIdx, vresult))
    /\ vlog' = Append(vlog, LogEntry("return", issueIdx, vresult))
    /\ issueIdx' = issueIdx + 1
    /\ vstate' = "IDLE"
    /\ apc' = "loop"
    /\ UNCHANGED <<issues, doc, docAtCall, vargs, velem, vviolations, verror,
                   vresult, doc0, phase3Vars, matchVars,
                   patchVars, summaryVars, browserVars, reportVars>>

\* Faulty variant of thrownIssue: the issue whose validation threw is
\* recorded as validated.
thrownIssueValidated(i, message) ==
    ValidatedIssue(i, "validated", "Validation error: " \o message)

\* What the catch clause of the loop body pushes for issueErr.
thrownIssue(i, message) ==
    ValidatedIssue(i, "manual", "Validation error: " \o message)

\* Faulty variant of afterCatch: the exception ends the validation pass.
afterCatchAbort == "phase2done"

\* Where the run is after the catch clause of the loop body: the catch is
\* inside the for loop, which goes on with its next turn.
afterCatch == "loop"

\* validateFix threw: the catch clause of the loop body records the issue as
\* manual with the exception text, the loop goes on.
ValidateFixThrows ==
    /\ apc = "call"
    /\ vstate = "THROWN"
    /\ validatedIssues' = push(thrownIssue(issueIdx, verror))
    /\ vlog' = Append(vlog, LogEntry("throw", issueIdx, NoResult))
    /\ issueIdx' = issueIdx + 1
    /\ vstate' = "IDLE"
    /\ apc' = afterCatch
    /\ UNCHANGED <<issues, doc, docAtCall, vargs, velem, vviolations, verror,
                   vresult, doc0, phase3Vars, matchVars,
                   patchVars, summaryVars, browserVars, reportVars>>

\* The loop has gone through report.issues.
EndPhase2 ==
    /\ apc = "loop"
    /\ issueIdx > Len(issues)
    /\ apc' = "phase2done"
    /\ UNCHANGED <<issues, issueIdx, doc, docAtCall, vstate, vargs, velem,
                   vviolations, verror, vresult, validatedIssues, doc0, vlog, phase3Vars, matchVars,
                   patchVars, summaryVars, browserVars, reportVars>>

-----------------------------------------------------------------------------
(* Audit orchestrator: the enriched report and the Phase 3 approval loop *)

\* The report as Phase 1 left it in reports/: no validationResults.
plainReport ==
    [saved |-> TRUE, enriched |-> FALSE, validationResults |-> NoValidationResults,
     has |-> FALSE, approvedFixes |-> <<>>]

\* A double is [m, e]: the value m * 2^e, with the 53-bit significand m held
\* as five limbs, most significant first: the leading bit and four limbs of 13
\* bits. Zero is DoubleZero.
LimbBase == 8192

\* 2^k
RECURSIVE pow2(_)
pow2(k) == IF k = 0 THEN 1 ELSE 2 * pow2(k - 1)

\* The least k with n * 2^k >= d, for 0 < n <= d.
RECURSIVE leadShift(_, _)
leadShift(n, d) == IF n >= d THEN 0 ELSE 1 + leadShift(2 * n, d)

DoubleZero == [m |-> <<0, 0, 0, 0, 0>>, e |-> 0]

\* m + 1 on the limbs of m, from limb i upwards.
RECURSIVE increment(_, _)
increment(m, i) ==
    IF m[i] + 1 < LimbBase \/ i = 1 THEN [m EXCEPT ![i] = m[i] + 1]
    ELSE increment([m EXCEPT ![i] = 0], i - 1)

\* The double next above m * 2^e, renormalised when the significand overflows.
roundedUp(m, e) ==
    LET up == increment(m, 5)
    IN  IF up[1] = 2 THEN [m |-> <<1, 0, 0, 0, 0>>, e |-> e + 1]
        ELSE [m |-> up, e |-> e]

\* The least j with n < d * 2^(j + 1), for n >= d > 0.
RECURSIVE tailShift(_, _)
tailShift(n, d) == IF n < 2 * d THEN 0 ELSE 1 + tailShift(n, 2 * d)

\* n / d for integers n >= 0, d > 0: the quotient to 53 significant bits,
\* rounded to nearest, ties to even (IEEE 754 binary64 division).
divide(n, d) ==
    IF n = 0 THEN DoubleZero
    ELSE LET k == leadShift(n, d)
             j == tailShift(n * pow2(k), d)
             dd == d * pow2(j)
             r0 == n * pow2(k) - dd
             c1 == (r0 * LimbBase) \div dd
             r1 == (r0 * LimbBase) % dd
             c2 == (r1 * LimbBase) \div dd
             r2 == (r1 * LimbBase) % dd
             c3 == (r2 * LimbBase) \div dd
             r3 == (r2 * LimbBase) % dd
             c4 == (r3 * LimbBase) \div dd
             r4 == (r3 * LimbBase) % dd
             m == <<1, c1, c2, c3, c4>>
             e == j - 52 - k
         IN  IF 2 * r4 > dd \/ (2 * r4 = dd /\ c4 % 2 = 1)
             THEN roundedUp(m, e)
             ELSE [m |-> m, e |-> e]

\* x * 100 for a double x >= 0: the exact product, rounded to 53 significant
\* bits, to nearest, ties to even.
times100(x) ==
    IF x = DoubleZero THEN DoubleZero
    ELSE LET t5 == x.m[5] * 100
             t4 == (x.m[4] * 100) + (t5 \div LimbBase)
             t3 == (x.m[3] * 100) + (t4 \div LimbBase)
             t2 == (x.m[2] * 100) + (t3 \div LimbBase)
             t1 == (x.m[1] * 100) + (t2 \div LimbBase)
             s == IF t1 < 128 THEN 6 ELSE 7
             w == pow2(s)
             a2 == ((t1 % w) * LimbBase) + (t2 % LimbBase)
             a3 == ((a2 % w) * LimbBase) + (t3 % LimbBase)
             a4 == ((a3 % w) * LimbBase) + (t4 % LimbBase)
             a5 == ((a4 % w) * LimbBase) + (t5 % LimbBase)
             kept == <<t1 \div w, a2 \div w, a3 \div w, a4 \div w, a5 \div w>>
             dropped == a5 % w
         IN  IF 2 * dropped > w \/ (2 * dropped = w /\ kept[5] % 2 = 1)
             THEN roundedUp(kept, x.e + s)
             ELSE [m |-> kept, e |-> x.e + s]

\* Math.round(x) for a double 0 <= x < 8192: floor(x + 0.5), read off the
\* integer bits and the half bit of x.
mathRound(x) ==
    IF x = DoubleZero THEN 0
    ELSE LET f == 0 - x.e
             top == (x.m[1] * LimbBase) + x.m[2]
         IN  (top \div pow2(f - 39)) + ((top \div pow2(f - 40)) % 2)

\* Math.round((n / d) * 100) for d > 0, in double arithmetic.
roundPct(n, d) == mathRound(times100(divide(n, d)))

\* summary: { total, validated, manual, validatedPct }
summaryOf(total, nv, nm) ==
    [total |-> total,
     validated |-> nv,
     manual |-> nm,
     validatedPct |-> IF total # 0 THEN roundPct(nv, total) ELSE 0]

\* Faulty variant of validated: the filter is left out.
validatedUnfiltered == validatedIssues

\* validatedIssues.filter((v) => v.status === "validated")
validated == SelectSeq(validatedIssues, LAMBDA v : v.status = "validated")

\* validatedIssues.filter((v) => v.status === "manual")
manual == SelectSeq(validatedIssues, LAMBDA v : v.status = "manual")

\* { ...report, validationResults: { summary, issues } }
enrichedReport ==
    [saved |-> TRUE,
     enriched |-> TRUE,
     validationResults |->
        [summary |-> summaryOf(Len(validatedIssues), Len(validated), Len(manual)),
         issues |-> validatedIssues],
     has |-> plainReport.has,
     approvedFixes |-> plainReport.approvedFixes]

\* The enriched report is written over the report file; Phase 3 begins.
SaveEnriched ==
    /\ apc = "phase2done"
    /\ disk' = enrichedReport
    /\ apc' = "phase3"
    /\ approvalIdx' = 1
    /\ UNCHANGED <<issues, issueIdx, doc, docAtCall, vstate, vargs, velem,
                   vviolations, verror, vresult, validatedIssues, doc0, vlog,
                   auditApprovedFixes, approvalPrompts, matchVars, patchVars, summaryVars, browserVars, reportVars>>

\* JSON.stringify or fs.writeFileSync threw: the catch clause logs the
\* failure, the report file stays as it was, Phase 3 begins all the same.
SaveEnrichedFails ==
    /\ apc = "phase2done"
    /\ apc' = "phase3"
    /\ approvalIdx' = 1
    /\ UNCHANGED <<issues, issueIdx, doc, docAtCall, vstate, vargs, velem,
                   vviolations, verror, vresult, validatedIssues, doc0, vlog,
                   disk, auditApprovedFixes, approvalPrompts, matchVars,
                   patchVars, summaryVars, browserVars, reportVars>>

\* One turn of the Phase 3 loop: validated[i] is shown, askYesNo is answered,
\* the issue is pushed on approvedFixes unless the answer is "n".
AskApproval ==
    /\ apc = "phase3"
    /\ approvalIdx <= Len(validated)
    /\ approvalPrompts' = Append(approvalPrompts, validated[approvalIdx].issue)
    /\ \E approve \in BOOLEAN :
          auditApprovedFixes' = IF approve
                                THEN Append(auditApprovedFixes, validated[approvalIdx].issue)
                                ELSE auditApprovedFixes
    /\ approvalIdx' = approvalIdx + 1
    /\ UNCHANGED <<apc, issues, issueIdx, doc, docAtCall, vstate, vargs, velem,
                   vviolations, verror, vresult, validatedIssues, doc0, vlog,
                   disk, matchVars, patchVars, summaryVars, browserVars, reportVars>>

\* The run is interrupted while askYesNo waits for the answer.
ApprovalAborts ==
    /\ apc = "phase3"
    /\ approvalIdx <= Len(validated)
    /\ approvalPrompts' = Append(approvalPrompts, validated[approvalIdx].issue)
    /\ apc' = "aborted"
    /\ UNCHANGED <<issues, issueIdx, doc, docAtCall, vstate, vargs, velem,
                   vviolations, verror, vresult, validatedIssues, doc0, vlog,
                   disk, approvalIdx, auditApprovedFixes, matchVars, patchVars, summaryVars, browserVars, reportVars>>

\* The loop has gone through validated; the manual issues are listed and the
\* counts are printed.
EndPhase3 ==
    /\ apc = "phase3"
    /\ approvalIdx > Len(validated)
    /\ apc' = "done"
    /\ UNCHANGED <<issues, issueIdx, doc, docAtCall, vstate, vargs, velem,
                   vviolations, verror, vresult, validatedIssues, doc0, vlog,
                   phase3Vars, matchVars, patchVars, summaryVars, browserVars, reportVars>>

\* Issues of the report: [element (selector), suggestedFix, currentCode].
IssuePool ==
    { [element |-> "img:not([alt])", suggestedFix |-> "<img alt>", currentCode |-> "<img>"],
      [element |-> "img", suggestedFix |-> "<img title>", currentCode |-> "<img>"],
      [element |-> "img", suggestedFix |-> "<img alt>", currentCode |-> "<div>"],
      [element |-> "#missing", suggestedFix |-> "<img alt>", currentCode |-> "<img>"] }

IssueLists == UNION {[1..n -> IssuePool] : n \in 0..MaxIssues}

Documents == [1..NumElems -> Markups]

AuditInit ==
    /\ MatchIdle
    /\ PatchIdle
    /\ SummaryIdle
    /\ BrowserIdle
    /\ ReportIdle
    /\ apc = "loop"
    /\ issues \in IssueLists
    /\ issueIdx = 1
    /\ doc \in Documents
    /\ docAtCall = doc
    /\ vstate = "IDLE"
    /\ vargs = NoArgs
    /\ velem = 0
    /\ vviolations = <<>>
    /\ verror = ""
    /\ vresult = NoResult
    /\ validatedIssues = <<>>
    /\ doc0 = doc
    /\ vlog = <<>>
    /\ disk = plainReport
    /\ approvalIdx = 0
    /\ auditApprovedFixes = <<>>
    /\ approvalPrompts = <<>>

AuditNext ==
    \/ CallValidateFix
    \/ Inject
    \/ InjectThrows
    \/ CheckAndRevert
    \/ CheckThrows
    \/ Classify
    \/ RevertThrows
    \/ ErrorToManual
    \/ ErrorPropagates
    \/ ValidateFixReturns
    \/ ValidateFixThrows
    \/ EndPhase2
    \/ SaveEnriched
    \/ SaveEnrichedFails
    \/ AskApproval
    \/ ApprovalAborts
    \/ EndPhase3

SpecAudit == AuditInit /\ [][AuditNext]_vars

-----------------------------------------------------------------------------
(* Audit orchestrator: the summary of a long report *)

\* Phase 2 and the summary of the enriched report for reports of up to
\* MaxTotal issues. Of validatedIssues only the number of entries of each
\* status is kept: the summary depends on nothing else.

SummaryInit ==
    /\ MatchIdle
    /\ PatchIdle
    /\ AuditIdle
    /\ BrowserIdle
    /\ ReportIdle
    /\ spc = "loop"
    /\ reportLen \in 0..MaxTotal
    /\ pushed = 0
    /\ nValidated = 0
    /\ nManual = 0
    /\ savedSummary = NoValidationResults.summary

\* A turn of the Phase 2 loop that pushes { issue, status: "validated" }.
TurnValidated ==
    /\ spc = "loop"
    /\ pushed < reportLen
    /\ pushed' = pushed + 1
    /\ nValidated' = nValidated + 1
    /\ UNCHANGED <<spc, reportLen, nManual, savedSummary, matchVars, patchVars,
                   auditVars, browserVars, reportVars>>

\* A turn of the Phase 2 loop that pushes { issue, status: "manual", reason }.
TurnManual ==
    /\ spc = "loop"
    /\ pushed < reportLen
    /\ pushed' = pushed + 1
    /\ nManual' = nManual + 1
    /\ UNCHANGED <<spc, reportLen, nValidated, savedSummary, matchVars,
                   patchVars, auditVars, browserVars, reportVars>>

\* The loop is over; the enriched report, with its summary, is written.
SaveSummary ==
    /\ spc = "loop"
    /\ pushed = reportLen
    /\ savedSummary' = summaryOf(pushed, nValidated, nManual)
    /\ spc' = "saved"
    /\ UNCHANGED <<reportLen, pushed, nValidated, nManual, matchVars, patchVars,
                   auditVars, browserVars, reportVars>>

SummaryNext ==
    \/ TurnValidated
    \/ TurnManual
    \/ SaveSummary

SpecSummary == SummaryInit /\ [][SummaryNext]_vars

-----------------------------------------------------------------------------
(* Shared browser: getStagehand and cleanup under the audit script *)

\* main has called runAccessibilityAudit; the agent is generating and its
\* tools have yet to run.
BrowserInit ==
    /\ MatchIdle
    /\ PatchIdle
    /\ AuditIdle
    /\ SummaryIdle
    /\ ReportIdle
    /\ rpc = "generate"
    /\ auditError = FALSE
    /\ stagehandInstance = 0
    /\ inst = <<>>
    /\ tpc = [t \in 1..NumTools |-> [at |-> "idle", on |-> 0]]
    /\ handouts = <<>>
    /\ cleanupCalls = 0
    /\ cleanupOutcome = "none"

\* The process is still running.
Running == rpc \notin {"exit0", "exit1"}

\* A value getStagehand hands to tool execution t: the instance (0 for
\* null) and whether its init() has completed successfully by then.
Handout(t, i, states) ==
    [tool |-> t, instance |-> i,
     initialized |-> (i # 0 /\ states[i] \in {"ready", "closed"})]

\* getStagehand, stagehandInstance null: a Stagehand is constructed and
\* assigned, init() is called and awaited.
GetStagehandCreate(t) ==
    /\ rpc = "generate"
    /\ tpc[t].at = "idle"
    /\ stagehandInstance = 0
    /\ inst' = Append(inst, "initializing")
    /\ stagehandInstance' = Len(inst) + 1
    /\ tpc' = [tpc EXCEPT ![t] = [at |-> "awaitInit", on |-> Len(inst) + 1]]
    /\ UNCHANGED <<rpc, auditError, handouts, cleanupCalls, cleanupOutcome,
                   matchVars, patchVars, auditVars, summaryVars, reportVars>>

\* getStagehand, stagehandInstance not null: it is returned as it is.
GetStagehandShared(t) ==
    /\ rpc = "generate"
    /\ tpc[t].at = "idle"
    /\ stagehandInstance # 0
    /\ handouts' = Append(handouts, Handout(t, stagehandInstance, inst))
    /\ tpc' = [tpc EXCEPT ![t].at = "returned"]
    /\ UNCHANGED <<rpc, auditError, stagehandInstance, inst, cleanupCalls,
                   cleanupOutcome, matchVars, patchVars, auditVars, summaryVars, reportVars>>

\* init() resolves: getStagehand goes on to "return stagehandInstance".
InitResolves(t) ==
    /\ Running
    /\ tpc[t].at = "awaitInit"
    /\ inst' = [inst EXCEPT ![tpc[t].on] =
                    IF @ = "initializing" THEN "ready" ELSE @]
    /\ handouts' = Append(handouts, Handout(t, stagehandInstance, inst'))
    /\ tpc' = [tpc EXCEPT ![t].at = "returned"]
    /\ UNCHANGED <<rpc, auditError, stagehandInstance, cleanupCalls,
                   cleanupOutcome, matchVars, patchVars, auditVars, summaryVars, reportVars>>

\* init() rejects: getStagehand throws; stagehandInstance keeps the instance.
InitRejects(t) ==
    /\ Running
    /\ tpc[t].at = "awaitInit"
    /\ inst' = [inst EXCEPT ![tpc[t].on] =
                    IF @ = "initializing" THEN "failed" ELSE @]
    /\ tpc' = [tpc EXCEPT ![t].at = "threw"]
    /\ UNCHANGED <<rpc, auditError, stagehandInstance, handouts, cleanupCalls,
                   cleanupOutcome, matchVars, patchVars, auditVars, summaryVars, reportVars>>

\* No tool execution is inside getStagehand.
ToolsSettled == \A t \in 1..NumTools : tpc[t].at # "awaitInit"

\* generateLegacy returns and a report is parsed: Phases 2 and 3 follow.
ReportParsed ==
    /\ rpc = "generate"
    /\ ToolsSettled
    /\ rpc' = "phases"
    /\ UNCHANGED <<auditError, stagehandInstance, inst, tpc, handouts,
                   cleanupCalls, cleanupOutcome, matchVars, patchVars, auditVars,
                   summaryVars, reportVars>>

\* generateLegacy returns and no report can be parsed: the raw response is
\* printed and the try block ends.
NoReportParsed ==
    /\ rpc = "generate"
    /\ ToolsSettled
    /\ rpc' = "finally"
    /\ UNCHANGED <<auditError, stagehandInstance, inst, tpc, handouts,
                   cleanupCalls, cleanupOutcome, matchVars, patchVars, auditVars,
                   summaryVars, reportVars>>

\* Phases 2 and 3 run to the end of the try block.
PhasesComplete ==
    /\ rpc = "phases"
    /\ rpc' = "finally"
    /\ UNCHANGED <<auditError, stagehandInstance, inst, tpc, handouts,
                   cleanupCalls, cleanupOutcome, matchVars, patchVars, auditVars,
                   summaryVars, reportVars>>

\* Faulty variant of rethrown: the rethrown error leaves the function at once.
rethrownPastFinally == "unwound"

\* Where control goes when the catch clause rethrows: to the finally block.
rethrown == "finally"

\* An error is thrown in the try block, in any phase: the catch clause logs
\* and rethrows it.
AuditThrows ==
    /\ rpc \in {"generate", "phases"}
    /\ auditError' = TRUE
    /\ rpc' = rethrown
    /\ UNCHANGED <<stagehandInstance, inst, tpc, handouts, cleanupCalls,
                   cleanupOutcome, matchVars, patchVars, auditVars, summaryVars, reportVars>>

\* The test of cleanup: if (stagehandInstance).
cleanupCloses == stagehandInstance # 0

\* The finally block calls cleanup(): close() is called and awaited when
\* there is an instance, else cleanup returns at once.
CallCleanup ==
    /\ rpc = "finally"
    /\ cleanupCalls' = cleanupCalls + 1
    /\ IF cleanupCloses
       THEN rpc' = "closing" /\ cleanupOutcome' = "pending"
       ELSE rpc' = "unwound" /\ cleanupOutcome' = "returned"
    /\ UNCHANGED <<auditError, stagehandInstance, inst, tpc, handouts,
                   matchVars, patchVars, auditVars, summaryVars, reportVars>>

\* close() resolves: stagehandInstance = null, cleanup returns.
CloseResolves ==
    /\ rpc = "closing"
    /\ inst' = [inst EXCEPT ![stagehandInstance] = "closed"]
    /\ stagehandInstance' = 0
    /\ cleanupOutcome' = "returned"
    /\ rpc' = "unwound"
    /\ UNCHANGED <<auditError, tpc, handouts, cleanupCalls, matchVars,
                   patchVars, auditVars, summaryVars, reportVars>>

\* close() rejects: cleanup throws out of the finally block.
CloseRejects ==
    /\ rpc = "closing"
    /\ cleanupOutcome' = "threw"
    /\ auditError' = TRUE
    /\ rpc' = "unwound"
    /\ UNCHANGED <<stagehandInstance, inst, tpc, handouts, cleanupCalls,
                   matchVars, patchVars, auditVars, summaryVars, reportVars>>

\* main: process.exit(0) after runAccessibilityAudit returned, process.exit(1)
\* in the catch clause.
MainExits ==
    /\ rpc = "unwound"
    /\ rpc' = (IF auditError THEN "exit1" ELSE "exit0")
    /\ UNCHANGED <<auditError, stagehandInstance, inst, tpc, handouts,
                   cleanupCalls, cleanupOutcome, matchVars, patchVars, auditVars,
                   summaryVars, reportVars>>

BrowserNext ==
    \/ \E t \in 1..NumTools : GetStagehandCreate(t)
    \/ \E t \in 1..NumTools : GetStagehandShared(t)
    \/ \E t \in 1..NumTools : InitResolves(t)
    \/ \E t \in 1..NumTools : InitRejects(t)
    \/ ReportParsed
    \/ NoReportParsed
    \/ PhasesComplete
    \/ AuditThrows
    \/ CallCleanup
    \/ CloseResolves
    \/ CloseRejects
    \/ MainExits

SpecBrowser == BrowserInit /\ [][BrowserNext]_vars

-----------------------------------------------------------------------------
(* Report tool: generate_accessibility_report *)

Categories == {"content", "cognitive", "visual", "motor", "structural"}

\* Issues as the tool sees them: the category and the instanceCount, which
\* the schema lets be any number (has = FALSE: the field is missing).
ReportIssues ==
    {[category |-> c, has |-> TRUE, instanceCount |-> n] :
        c \in Categories, n \in {0 - 1, 0, 1, 17}}
    \cup {[category |-> c, has |-> FALSE, instanceCount |-> 0] : c \in Categories}

ReportIssueLists == UNION {[1..n -> ReportIssues] : n \in 0..MaxReportIssues}

\* The derived fields as a caller may have filled them in: the placeholders
\* of the schema, or values of its own.
SuppliedSummaries ==
    {[NoSummary EXCEPT !.passedChecks = p] : p \in 0..MaxPassed}
    \cup {[totalAffectedElements |-> 99,
           categoryBreakdown |-> [content |-> 9, cognitive |-> 9, visual |-> 9,
                                  motor |-> 9, structural |-> 9],
           complianceScore |-> 100,
           verdict |-> "compliant",
           passedChecks |-> p] : p \in 0..MaxPassed}

ReportInit ==
    /\ MatchIdle
    /\ PatchIdle
    /\ AuditIdle
    /\ SummaryIdle
    /\ BrowserIdle
    /\ gpc = "input"
    /\ toolReport \in [issues : ReportIssueLists, summary : SuppliedSummaries]
    /\ finalSummary = NoSummary

\* i.instanceCount || 1
countOf(i) == IF i.has /\ i.instanceCount # 0 THEN i.instanceCount ELSE 1

\* issues.reduce((sum, i) => sum + (i.instanceCount || 1), 0)
RECURSIVE totalAffectedElements(_)
totalAffectedElements(list) ==
    IF list = <<>> THEN 0
    ELSE totalAffectedElements(SubSeq(list, 1, Len(list) - 1))
         + countOf(list[Len(list)])

\* issues.filter((i) => i.category === c).length, for the five categories
categoryBreakdown(list) ==
    [c \in Categories |-> Len(SelectSeq(list, LAMBDA i : i.category = c))]

\* Math.max(a, b)
max(a, b) == IF a >= b THEN a ELSE b

\* Math.round(passedChecks / Math.max(1, passedChecks + totalAffectedElements) * 100)
complianceScore(passedChecks, total) ==
    roundPct(passedChecks, max(1, passedChecks + total))

verdict(score) ==
    IF score >= 80 THEN "compliant"
    ELSE IF score >= 50 THEN "partially-compliant"
    ELSE "non-compliant"

\* { ...report.summary, totalAffectedElements, categoryBreakdown,
\*   complianceScore, verdict, passedChecks }
recomputed(r) ==
    LET total == totalAffectedElements(r.issues)
        score == complianceScore(r.summary.passedChecks, total)
    IN  [totalAffectedElements |-> total,
         categoryBreakdown |-> categoryBreakdown(r.issues),
         complianceScore |-> score,
         verdict |-> verdict(score),
         passedChecks |-> r.summary.passedChecks]

\* execute: the summary is recomputed, the final report is written to
\* reports/ and returned.
ExecuteReportTool ==
    /\ gpc = "input"
    /\ finalSummary' = recomputed(toolReport)
    /\ gpc' = "done"
    /\ UNCHANGED <<toolReport, matchVars, patchVars, auditVars, summaryVars,
                   browserVars>>

\* fs.mkdirSync or fs.writeFileSync throws: execute throws, nothing is written.
ReportSaveFails ==
    /\ gpc = "input"
    /\ gpc' = "threw"
    /\ UNCHANGED <<toolReport, finalSummary, matchVars, patchVars, auditVars,
                   summaryVars, browserVars>>

ReportNext ==
    \/ ExecuteReportTool
    \/ ReportSaveFails

SpecReport == ReportInit /\ [][ReportNext]_vars

-----------------------------------------------------------------------------
(* Span matcher: properties *)

\* The words of s: its maximal runs of non-whitespace characters, in order.
RECURSIVE Words(_, _)
Words(s, cur) ==
    IF s = <<>> THEN (IF cur = <<>> THEN <<>> ELSE <<cur>>)
    ELSE IF Head(s) \in WS
         THEN (IF cur = <<>> THEN <<>> ELSE <<cur>>) \o Words(Tail(s), <<>>)
         ELSE Words(Tail(s), Append(cur, Head(s)))

RECURSIVE JoinWords(_)
JoinWords(ws) ==
    IF ws = <<>> THEN <<>>
    ELSE IF Len(ws) = 1 THEN ws[1]
         ELSE ws[1] \o <<" ">> \o JoinWords(Tail(ws))

\* normalize of the specification: whitespace runs collapsed to one space and
\* the ends trimmed, i.e. the words of s joined by single spaces.
Normalize(s) == JoinWords(Words(s, <<>>))

\* All spans (i, j), 0 <= i <= j <= |h|, and those that normalise to the needle.
Spans(h) == {p \in (0..Len(h)) \X (0..Len(h)) : p[1] <= p[2]}

MatchingSpans(h, n) ==
    LET target == Normalize(n)
    IN  {p \in Spans(h) : Normalize(slice(h, p[1], p[2])) = target}

\* p comes before q in scan order: earlier start, then earlier end.
ScanBefore(p, q) == p[1] < q[1] \/ (p[1] = q[1] /\ p[2] < q[2])

\* s with every maximal whitespace run cut down to its first character: two
\* strings with the same Squeeze differ only in the length of whitespace runs.
RECURSIVE Squeeze(_)
Squeeze(s) ==
    IF s = <<>> THEN <<>>
    ELSE IF Head(s) \in WS
         THEN <<Head(s)>> \o Squeeze(trimStart(Tail(s)))
         ELSE <<Head(s)>> \o Squeeze(Tail(s))

\* The substrings of h that differ from n only in the length of whitespace runs.
RunLengthVariants(h, n) ==
    {slice(h, p[1], p[2]) : p \in {q \in Spans(h) :
        Squeeze(slice(h, q[1], q[2])) = Squeeze(n)}}

FuzzyPath == ~includes(haystack, needle)
             /\ includes(Normalize(haystack), Normalize(needle))

\* C6: a needle that occurs verbatim in the haystack is returned unchanged.
C6_VerbatimReturnsNeedle ==
    (mpc = "done" /\ includes(haystack, needle)) => found = needle

\* A verbatim needle with trailing whitespace, which the fuzzy scan would
\* return shortened.
C6_Witness ==
    /\ mpc = "done"
    /\ needle = <<"a", " ">>
    /\ haystack = <<"a", "a", " ">>
    /\ found = needle

\* C7: when the needle does not occur verbatim but a substring of the haystack
\* differs from it only in the length of its whitespace runs, the result is
\* exactly such a substring (nothing before or after it) and not the needle.
\* Stated for needles that begin and end with a non-whitespace character, as
\* a markup fragment does.
C7_ReturnsRunLengthVariant ==
    (mpc = "done" /\ ~includes(haystack, needle)
        /\ needle # <<>> /\ trim(needle) = needle
        /\ RunLengthVariants(haystack, needle) # {})
    => (found \in RunLengthVariants(haystack, needle) /\ found # needle)

\* C8: no whitespace-normalised occurrence of the needle gives not-found.
C8_NoNormalizedOccurrenceIsNull ==
    (mpc = "done" /\ ~includes(Normalize(haystack), Normalize(needle)))
    => found = NULL

\* The words of the needle are all in the haystack, but not separated.
C8_Witness ==
    /\ mpc = "done"
    /\ haystack = <<"a", "a">>
    /\ needle = <<"a", " ", "a">>
    /\ found = NULL

\* C9: on the fuzzy path the returned span is the first match in scan order:
\* the smallest start offset with a matching span, then the smallest end.
C9_FirstMatchInScanOrder ==
    (mpc = "done" /\ FuzzyPath /\ found # NULL)
    => LET matching == MatchingSpans(haystack, needle)
       IN  \E p \in matching :
              /\ found = slice(haystack, p[1], p[2])
              /\ \A q \in matching : ~ScanBefore(q, p)

\* A fuzzy match with several matching spans, at two different start offsets.
C9_Witness ==
    /\ mpc = "done"
    /\ FuzzyPath
    /\ found # NULL
    /\ \E p, q \in MatchingSpans(haystack, needle) : p[1] < q[1]
    /\ \E p, q \in MatchingSpans(haystack, needle) : p[1] = q[1] /\ p[2] < q[2]

-----------------------------------------------------------------------------
(* Source patch writer: properties *)

\* The run has ended (process.exit).
PatchEnded == ppc \in {"exit0", "exit1"}

\* The fix loop is past fix k: its iteration ran to the end.
Processed(k) == ppc \in {"scan", "prompt", "summary", "exit0", "exit1"} /\ k < fixIdx

\* The candidate files of tree t in which the patch writer finds cur.
MatchingFiles(t, cur) ==
    {sourceFiles[k] : k \in {x \in 1..Len(sourceFiles) :
        truthy(findInContent(t[sourceFiles[x]].content, cur))}}

\* The first-enumerated of them (files are numbered in enumeration order).
FirstMatchingFile(t, cur) ==
    CHOOSE f \in MatchingFiles(t, cur) : \A g \in MatchingFiles(t, cur) : f <= g

ResultsOf(k) == {i \in 1..Len(results) : results[i].fix = k}

\* C2: a dry run writes no file: the tree stays as it was, no write is ever
\* issued, and every fix the loop has handled whose currentCode matches a
\* file has the result {that file, applied = false, reason "dry-run"}.
C2_DryRunWritesNothing ==
    dryRun =>
        /\ tree = tree0
        /\ writes = <<>>
        /\ \A k \in 1..Len(approvedFixes) :
              (Processed(k) /\ MatchingFiles(tree0, approvedFixes[k].currentCode) # {})
              => \E i \in ResultsOf(k) :
                    results[i] = PatchResult(k,
                        FirstMatchingFile(tree0, approvedFixes[k].currentCode),
                        FALSE, "dry-run")

\* A completed dry run of two fixes that both match, the first one in a file
\* its replacement would change.
C2_Witness ==
    /\ dryRun
    /\ ppc = "exit0"
    /\ Len(results) = 2
    /\ \A i \in 1..2 : results[i].reason = "dry-run"
    /\ replace(tree[results[1].file].content,
               findInContent(tree[results[1].file].content,
                             approvedFixes[1].currentCode),
               approvedFixes[1].suggestedFix) # tree[results[1].file].content

\* C3: per fix at most one write, to the first-enumerated matching file, and
\* a write changes no other file; the tree changes through these writes only.
C3_OneFileOncePerFix ==
    /\ \A i, j \in 1..Len(writes) : i # j => writes[i].fix # writes[j].fix
    /\ \A i \in 1..Len(writes) :
          LET w == writes[i]
              cur == approvedFixes[w.fix].currentCode
          IN  /\ MatchingFiles(w.before, cur) # {}
              /\ w.file = FirstMatchingFile(w.before, cur)
              /\ \A f \in 1..Len(tree) : f # w.file => w.after[f] = w.before[f]
              /\ w.before = (IF i = 1 THEN tree0 ELSE writes[i - 1].after)
    /\ tree = (IF writes = <<>> THEN tree0 ELSE writes[Len(writes)].after)

\* A fix whose currentCode is in two candidate files was written, to the
\* first of them, and the second one still holds currentCode afterwards.
C3_Witness ==
    /\ ppc = "exit0"
    /\ \E i \in 1..Len(writes) :
          LET w == writes[i]
              cur == approvedFixes[w.fix].currentCode
          IN  /\ Cardinality(MatchingFiles(w.before, cur)) >= 2
              /\ w.after[w.file] # w.before[w.file]
              /\ \E g \in MatchingFiles(w.before, cur) :
                    g # w.file /\ tree[g] = tree0[g]

\* C4: a read or write failure during one fix is reported for that fix and
\* does not abort the run: that fix and every fix after it has its result
\* when the run has ended.
C4_IoFailureIsolated ==
    (PatchEnded /\ ioFailedAt # 0)
    => \A k \in ioFailedAt..Len(approvedFixes) : ResultsOf(k) # {}

\* C5: when a run has gone to its end (no I/O failure, report readable) every
\* approved fix is reported, and a fix that matches in no candidate file is
\* reported {file "", applied = false, "currentCode not found in any file"},
\* also when the tree holds no candidate file at all.
C5_UnmatchedFixReported ==
    (ppc = "exit0" /\ report.status = "ok")
    => \A k \in 1..Len(approvedFixes) :
          /\ ResultsOf(k) # {}
          /\ (tree = tree0 /\ MatchingFiles(tree0, approvedFixes[k].currentCode) = {})
             => \E i \in ResultsOf(k) :
                   results[i] = PatchResult(k, 0, FALSE,
                                            "currentCode not found in any file")

-----------------------------------------------------------------------------
(* Fix validator: properties *)

\* validateFix has returned a ValidationResult to the Phase 2 loop.
Returned == apc = "call" /\ vstate \in {"VALIDATED", "MANUAL"}

\* No element of document d is matched by selector sel.
Unresolvable(d, sel) == \A e \in 1..Len(d) : ~selectorMatches(sel, d[e])

\* C1: when validateFix(issue.element, issue.suggestedFix, issue.currentCode)
\* has returned, with passed true or false, the element it resolved holds
\* the original markup (issue.currentCode) and every other element is as it
\* was when the call began: the proposed markup is not left in the document.
C1_LiveMarkupRestored ==
    Returned =>
        IF velem # 0
        THEN doc = [docAtCall EXCEPT ![velem] = issues[issueIdx].currentCode]
        ELSE doc = docAtCall

\* A call that injected markup different from the original has returned
\* passed = false after an earlier call of the pass had returned passed = true.
C1_Witness ==
    /\ Returned
    /\ velem # 0
    /\ vresult.method = "dom-injection"
    /\ ~vresult.passed
    /\ verror = ""
    /\ vargs.proposedCode # vargs.originalCode
    /\ \E i \in 1..Len(validatedIssues) : validatedIssues[i].status = "validated"

\* C10: a call whose selector does not resolve in the live document returns
\* {method "skipped", passed false, reason "element not found"}: it is never
\* in a throwing or mutating state, and the document is as it was.
C10_UnresolvedSelectorSkipped ==
    (apc = "call" /\ Unresolvable(docAtCall, issues[issueIdx].element))
    => /\ vstate = "MANUAL"
       /\ vresult = ValidationResult("skipped", FALSE, "element not found")
       /\ velem = 0
       /\ doc = docAtCall

\* A selector that matches images without alt text, on a document that has
\* an image with alt text only: the call has returned skipped.
C10_Witness ==
    /\ apc = "call"
    /\ issues[issueIdx].element = "img:not([alt])"
    /\ \E e \in 1..Len(docAtCall) : docAtCall[e] = "<img alt>"
    /\ Unresolvable(docAtCall, issues[issueIdx].element)
    /\ vresult.method = "skipped"

-----------------------------------------------------------------------------
(* Fix validator: exceptions *)

\* The last call of validateFix has met an exception and is over: it has
\* returned, or thrown to the loop body.
ErroredCallOver ==
    /\ verror # ""
    /\ \/ apc = "call" /\ vstate \in {"MANUAL", "THROWN"}
       \/ apc # "call"

\* C11: when an exception has occurred while validateFix was injecting,
\* checking or reverting, then by the time the call returns or throws the
\* resolved element holds originalCode again and the rest of the document is
\* as it was when the call began; a returned result is {passed false, reason:
\* the exception text}; and once the loop body has handled the outcome, the
\* issue is recorded as manual with the exception text as its reason (after
\* "Validation error: " when the exception was propagated).
C11_ExceptionRevertsThenManual ==
    ErroredCallOver =>
        /\ doc = [docAtCall EXCEPT ![velem] = vargs.originalCode]
        /\ (vstate = "MANUAL") =>
              (~vresult.passed /\ vresult.reason = verror)
        /\ (apc # "call") =>
              LET last == validatedIssues[Len(validatedIssues)]
              IN  /\ last.status = "manual"
                  /\ last.reason \in {verror, "Validation error: " \o verror}

\* The checker threw after a fix that differs from the original markup had
\* been injected; the exception was propagated, the loop body has recorded
\* the issue, and the element holds the original markup.
C11_Witness ==
    /\ apc = "loop"
    /\ verror = "check failed"
    /\ vargs.proposedCode # vargs.originalCode
    /\ doc[velem] = vargs.originalCode
    /\ validatedIssues[Len(validatedIssues)].reason = "Validation error: check failed"

-----------------------------------------------------------------------------
(* Audit orchestrator: one validation at a time *)

\* C12: the calls of validateFix are made one at a time: in the history of
\* the pass every call is followed by its own return (or throw) before the
\* next call starts, the calls are made in the order of report.issues, and
\* a call is in flight exactly when the last entry is a call.
C12_ValidationsSequential ==
    /\ \A n \in 1..Len(vlog) :
          IF n % 2 = 1
          THEN vlog[n].ev = "call" /\ vlog[n].issue = (n + 1) \div 2
          ELSE vlog[n].ev \in {"return", "throw"} /\ vlog[n].issue = n \div 2
    /\ (apc = "call") <=> (Len(vlog) % 2 = 1)

\* The call for the second issue is in flight; the call for the first issue
\* has injected a fix and returned.
C12_Witness ==
    /\ Len(vlog) = 3
    /\ vlog[2].ev = "return"
    /\ vlog[2].result.method = "dom-injection"
    /\ vlog[3].ev = "call"
    /\ vstate = "CHECKING"

-----------------------------------------------------------------------------
(* Fix validator: no side effect across issues *)

\* C13: whenever no call of validateFix is in flight (between two
\* consecutive calls and after the whole pass) the live document equals the
\* document as it was before the pass began.
C13_NoLeakAcrossIssues == (apc # "call") => (doc = doc0)

-----------------------------------------------------------------------------
(* Fix validator: classification *)

\* The violations the checker reports for the proposed markup that match
\* the rules it reports for the original markup.
SurvivingAfterInjection(args) ==
    LET after == runAccessibilityChecks(args.proposedCode)
        before == runAccessibilityChecks(args.originalCode)
    IN  SelectSeq(after, LAMBDA r : \E n \in 1..Len(before) : before[n] = r)

\* The call that ended last resolved its selector and met no exception.
CheckedCall == velem # 0 /\ verror = ""

\* C14: a call of validateFix that resolved its selector and met no exception
\* returns passed = true exactly when no violation reported for the injected
\* markup matches an original rule of the issue; otherwise it returns
\* passed = false with the first surviving violation as reason.  The loop
\* records the issue as validated in the first case, as manual with that
\* reason in the second.
C14_PassedIffNoSurvivingViolation ==
    LET survivors == SurvivingAfterInjection(vargs)
    IN  /\ (Returned /\ CheckedCall) =>
              /\ vresult.passed <=> (survivors = <<>>)
              /\ ~vresult.passed => vresult.reason = survivors[1]
        /\ (apc # "call" /\ vlog # <<>> /\ CheckedCall) =>
              LET last == validatedIssues[Len(validatedIssues)]
              IN  IF survivors = <<>>
                  THEN last.status = "validated"
                  ELSE last.status = "manual" /\ last.reason = survivors[1]

\* Two violations survive the injected fix; the call has returned and the
\* issue is recorded as manual with the first of them.
C14_Witness ==
    /\ apc = "loop"
    /\ CheckedCall
    /\ Len(SurvivingAfterInjection(vargs)) = 2
    /\ validatedIssues[Len(validatedIssues)].status = "manual"
    /\ validatedIssues[Len(validatedIssues)].reason = "region"

-----------------------------------------------------------------------------
(* Fix validator: idempotence *)

\* The texts of the exceptions a call can meet.
ExceptionTexts == {"injection failed", "check failed", "revert failed"}

\* Entry n of the history is the return of a call that met no exception.
CleanReturn(n) ==
    /\ n \in 1..Len(vlog)
    /\ vlog[n].ev = "return"
    /\ vlog[n].result.reason \notin ExceptionTexts

\* C15: two calls of validateFix in a row with identical arguments, neither
\* of which met an exception, return the same ValidationResult.
C15_ValidateFixIdempotent ==
    \A k \in 1..(Len(issues) - 1) :
        (/\ issues[k] = issues[k + 1]
         /\ CleanReturn(2 * k)
         /\ CleanReturn(2 * k + 2))
        => vlog[2 * k].result = vlog[2 * k + 2].result

-----------------------------------------------------------------------------
(* Fix validator: the element reference *)

\* The revert step of the call in flight has been executed.
RevertDone ==
    /\ apc = "call"
    /\ velem # 0
    /\ vstate \in {"REVERTING", "VALIDATED", "MANUAL", "THROWN"}

\* What the selector of the call would resolve to once the fix is injected.
ResolvedAfterInjection ==
    resolveSelector([docAtCall EXCEPT ![velem] = vargs.proposedCode], vargs.selector)

\* C16: once the revert step of a call has been executed, originalCode is on
\* the element the selector resolved to in the document the call started
\* with, and every other element is untouched, whatever the selector would
\* resolve to after the injection.
C16_RevertOnResolvedReference ==
    RevertDone =>
        /\ velem = resolveSelector(docAtCall, vargs.selector)
        /\ doc[velem] = vargs.originalCode
        /\ \A e \in 1..Len(doc) : e # velem => doc[e] = docAtCall[e]

\* The injected fix takes the element out of what the selector matches (the
\* selector would now resolve to another element); the check has run and
\* the original markup is back on the element resolved at the start.
C16_Witness ==
    /\ RevertDone
    /\ vstate = "REVERTING"
    /\ vargs.proposedCode # vargs.originalCode
    /\ ResolvedAfterInjection \notin {0, velem}
    /\ doc[velem] = vargs.originalCode

-----------------------------------------------------------------------------
(* Source patch writer: the written content *)

\* original with the first occurrence of span replaced by fix, character for
\* character.
LiteralPatch(original, span, fix) ==
    LET i == indexOf(original, span)
    IN  slice(original, 0, i) \o fix \o slice(original, i + Len(span), Len(original))

\* C17: every file a live run has written holds its content of before the
\* write with the matched span replaced by suggestedFix taken literally, and
\* the write changed no other file.
C17_WrittenLiterally ==
    \A n \in 1..Len(writes) :
        LET w == writes[n]
            fix == approvedFixes[w.fix]
            original == w.before[w.file].content
            span == findInContent(original, fix.currentCode)
        IN  /\ w.after[w.file].content = LiteralPatch(original, span, fix.suggestedFix)
            /\ \A f \in 1..Len(w.after) : f # w.file => w.after[f] = w.before[f]

-----------------------------------------------------------------------------
(* Source patch writer: confirmation *)

\* The tree as the loop found it when it came to fix j: tree0 changed by the
\* writes of the fixes before j.
TreeBefore(j) ==
    LET ws == {n \in 1..Len(writes) : writes[n].fix < j}
    IN  IF ws = {} THEN tree0
        ELSE writes[CHOOSE n \in ws : \A x \in ws : x <= n].after

\* C18: a file is written only for a fix the operator confirmed at the
\* prompt for that fix and that file, and the tree changes through these
\* writes only.  A declined fix has no write, is prompted for one file only
\* and has the result {that file, applied false, "skipped by user"}; when
\* the run has gone to its end, every fix after a declined one that matches
\* a file was offered at a prompt for its first matching file.
C18_WriteOnlyOnConfirm ==
    /\ \A n \in 1..Len(writes) :
          \E q \in 1..Len(prompts) :
              prompts[q] = [fix |-> writes[n].fix, file |-> writes[n].file,
                            answer |-> "yes"]
    /\ tree = (IF writes = <<>> THEN tree0 ELSE writes[Len(writes)].after)
    /\ \A q \in 1..Len(prompts) :
          (prompts[q].answer = "no") =>
              LET k == prompts[q].fix
              IN  /\ \A n \in 1..Len(writes) : writes[n].fix # k
                  /\ \A r \in 1..Len(prompts) : prompts[r].fix = k => r = q
                  /\ \E i \in ResultsOf(k) :
                        results[i] = PatchResult(k, prompts[q].file, FALSE,
                                                 "skipped by user")
                  /\ (ppc = "exit0") =>
                        \A j \in (k + 1)..Len(approvedFixes) :
                            LET cur == approvedFixes[j].currentCode
                                t == TreeBefore(j)
                            IN  MatchingFiles(t, cur) # {} =>
                                  \E r \in 1..Len(prompts) :
                                      /\ prompts[r].fix = j
                                      /\ prompts[r].file = FirstMatchingFile(t, cur)

\* The operator declined the first fix, which matches two files, and
\* confirmed the second one: the run has ended with one write, for the
\* second fix.
C18_Witness ==
    /\ ppc = "exit0"
    /\ Len(prompts) = 2
    /\ prompts[1].answer = "no"
    /\ Cardinality(MatchingFiles(tree0, approvedFixes[1].currentCode)) = 2
    /\ prompts[2].answer = "yes"
    /\ Len(writes) = 1
    /\ writes[1].fix = 2
    /\ tree # tree0

-----------------------------------------------------------------------------
(* Audit orchestrator: approval *)

\* The issues (indices into report.issues) the validation pass classified
\* with the given status.
IssuesWithStatus(status) ==
    {validatedIssues[n].issue : n \in {x \in 1..Len(validatedIssues) :
                                          validatedIssues[x].status = status}}

\* Sequence q of issue indices is strictly increasing.
Increasing(q) == \A m, n \in 1..Len(q) : m < n => q[m] < q[n]

\* Sequence q is a subsequence of sequence r, both increasing.
SubsequenceOf(q, r) ==
    /\ Increasing(q)
    /\ \A n \in 1..Len(q) : \E m \in 1..Len(r) : r[m] = q[n]

\* C19: every approval prompt is for an issue classified validated, in the
\* order of the validated issues; no issue classified manual is prompted or
\* approved; approvedFixes is a subsequence of the prompted issues, hence of
\* the validated ones in their order.
C19_OnlyValidatedOffered ==
    /\ \A n \in 1..Len(approvalPrompts) :
          approvalPrompts[n] \in IssuesWithStatus("validated")
    /\ Increasing(approvalPrompts)
    /\ SubsequenceOf(auditApprovedFixes, approvalPrompts)
    /\ \A i \in IssuesWithStatus("manual") :
          /\ \A n \in 1..Len(approvalPrompts) : approvalPrompts[n] # i
          /\ \A n \in 1..Len(auditApprovedFixes) : auditApprovedFixes[n] # i

\* The pass classified the first issue manual and the second one validated;
\* Phase 3 is over with one prompt, for the second issue, which was approved.
C19_Witness ==
    /\ apc = "done"
    /\ IssuesWithStatus("manual") = {1}
    /\ IssuesWithStatus("validated") = {2}
    /\ approvalPrompts = <<2>>
    /\ auditApprovedFixes = <<2>>

-----------------------------------------------------------------------------
(* Audit orchestrator: the enriched report *)

\* Phase 3 has begun: the approval prompts are being issued, the run was
\* interrupted at one of them, or they are over.
InPhase3 == apc \in {"phase3", "aborted", "done"}

\* C20: from the beginning of Phase 3 on, hence before the first approval
\* prompt and at any interruption of the approval, the report file holds the
\* enriched report: validationResults with one entry per issue of the
\* report, whether or not any of them is validated.
C20_EnrichedReportBeforeApproval ==
    InPhase3 =>
        /\ disk.enriched
        /\ disk.validationResults.issues = validatedIssues
        /\ disk.validationResults.summary.total = Len(issues)

-----------------------------------------------------------------------------
(* Audit orchestrator to patch writer: the approved subset *)

\* The issues approved in Phase 3, as issue records, in approval order.
ApprovedIssues ==
    [n \in 1..Len(auditApprovedFixes) |-> issues[auditApprovedFixes[n]]]

\* C21: when the audit has ended, the approvedFixes list the patch writer
\* reads from the report file is the list of the issues approved in Phase 3.
C21_ApprovedSubsetHandedOver ==
    (apc = "done") => (loadApprovedFixes(disk) = ApprovedIssues)

-----------------------------------------------------------------------------
(* Audit orchestrator: one result per issue *)

\* The Phase 2 loop is over.
Phase2Over == apc \in {"phase2done", "phase3", "aborted", "done"}

-----------------------------------------------------------------------------
(* Source patch writer: exit codes *)

\* C23: a run whose report is readable JSON without an approved-fix list
\* (no approvedFixes key, or an empty list) ends with exit code 1, as a run
\* whose report is missing or unreadable does.
C23_NoApprovedFixesExitsOne ==
    (PatchEnded /\ (report.status # "ok" \/ loadApprovedFixes(report) = <<>>))
    => ppc = "exit1"

-----------------------------------------------------------------------------
(* Source patch writer: malformed input *)

\* C24: with a report file that is missing or is not valid JSON, the run
\* never gets to the enumeration of the source tree or to the fix loop: no
\* file is read for matching, nothing is prompted or written, the tree is
\* as it was, and the run ends with exit code 1.
C24_MalformedReportTouchesNothing ==
    (report.status \in {"missing", "invalid"}) =>
        /\ ppc \in {"load", "exit1"}
        /\ tree = tree0
        /\ writes = <<>>
        /\ prompts = <<>>
        /\ results = <<>>
        /\ sourceFiles = <<>>

\* A live run on a report that is not JSON has ended, in a source tree
\* that has a candidate file.
C24_Witness ==
    /\ ppc = "exit1"
    /\ report.status = "invalid"
    /\ ~dryRun
    /\ walkDir(tree, 1) # <<>>

-----------------------------------------------------------------------------
(* Audit orchestrator: a failed validation is isolated *)

\* C25: an issue whose validateFix call threw is recorded as manual with
\* "Validation error: " and the exception text as reason, and the pass goes
\* on: the loop is at a later issue, and once the pass is over validateFix
\* has been called for every issue of the report.
C25_ThrowIsolatedToIssue ==
    \A k \in 1..Len(issues) :
        (2 * k <= Len(vlog) /\ vlog[2 * k].ev = "throw") =>
            /\ validatedIssues[k].status = "manual"
            /\ \E t \in ExceptionTexts :
                  validatedIssues[k].reason = "Validation error: " \o t
            /\ issueIdx > k
            /\ Phase2Over => Len(vlog) = 2 * Len(issues)

\* validateFix threw for the first issue; the call for the second issue is
\* in flight and has resolved its element.
C25_Witness ==
    /\ Len(vlog) = 3
    /\ vlog[2].ev = "throw"
    /\ vlog[3] = LogEntry("call", 2, NoResult)
    /\ apc = "call"
    /\ vstate = "INJECTING"

-----------------------------------------------------------------------------
(* Source patch writer: one result per fix *)

\* The run got to the fix loop.
ReachedLoop == fixIdx >= 1

\* C26: when a run that got to the fix loop has ended, every approved fix
\* has exactly one PatchResult (so at most one with applied = true), and the
\* counts of the summary add up to the number of approved fixes: applied,
\* skipped and not found in a live run, would-apply and not found in a dry
\* run.
C26_OneResultPerFix ==
    (PatchEnded /\ ReachedLoop) =>
        /\ \A k \in 1..Len(approvedFixes) : Cardinality(ResultsOf(k)) = 1
        /\ IF dryRun
           THEN Len(dryruns) + Len(notFound) = Len(approvedFixes)
           ELSE Len(applied) + Len(skipped) + Len(notFound) = Len(approvedFixes)

-----------------------------------------------------------------------------
(* Source patch writer: the files it touches *)

\* File f has the extension .html, .htm or .xhtml in any letter case, and
\* lies under no directory of the source root named node_modules, .git,
\* dist, build, .next or coverage.
HtmlOutsideSkipped(f) ==
    /\ f.ext \in {".html", ".htm", ".xhtml", ".HTML", ".HTM", ".XHTML"}
    /\ ~\E k \in 2..Len(f.dir) :
          f.dir[k] \in {"node_modules", ".git", "dist", "build", ".next", "coverage"}

\* The run is past the enumeration of the candidate files.
Enumerated == ppc \in {"scan", "prompt", "summary"} \/ (PatchEnded /\ fixIdx >= 1)

\* C27: the candidate list, once enumerated, is the list of the files of the
\* tree with an HTML extension outside the skipped directories, in
\* enumeration order, and stays that list for the rest of the run; every
\* file that is matched, offered at a prompt or written is one of them, and
\* every other file is as it was when the run began.
C27_OnlyCandidateFilesTouched ==
    /\ Enumerated =>
          /\ \A f \in 1..Len(tree0) :
                HtmlOutsideSkipped(tree0[f]) <=>
                    (\E n \in 1..Len(sourceFiles) : sourceFiles[n] = f)
          /\ \A m, n \in 1..Len(sourceFiles) : m < n => sourceFiles[m] < sourceFiles[n]
    /\ \A n \in 1..Len(results) :
          results[n].file # 0 => HtmlOutsideSkipped(tree0[results[n].file])
    /\ \A n \in 1..Len(prompts) : HtmlOutsideSkipped(tree0[prompts[n].file])
    /\ \A n \in 1..Len(writes) : HtmlOutsideSkipped(tree0[writes[n].file])
    /\ \A f \in 1..Len(tree) : ~HtmlOutsideSkipped(tree0[f]) => tree[f] = tree0[f]

\* A fix was written to a page with the extension .HTM; the page under
\* node_modules holds the same currentCode and is as it was.
C27_Witness ==
    /\ ppc = "exit0"
    /\ Len(writes) = 1
    /\ tree0[writes[1].file].ext = ".HTM"
    /\ tree[writes[1].file] # tree0[writes[1].file]
    /\ \E f \in 1..Len(tree) :
          /\ tree0[f].dir = <<"site", "node_modules">>
          /\ truthy(findInContent(tree0[f].content, approvedFixes[1].currentCode))
          /\ tree[f] = tree0[f]

-----------------------------------------------------------------------------
(* Audit orchestrator: the summary of the validation results *)

\* round(100 * n / d) for d > 0, halves rounded up.
exactPct(n, d) == (200 * n + d) \div (2 * d)

\* C28: in the persisted validationResults, summary.total is
\* summary.validated + summary.manual and the number of entries of
\* validationResults.issues; summary.validatedPct is round(100 * validated /
\* total), 0 when total is 0, and lies in 0..100.
C28_SummaryArithmetic ==
    (spc = "saved") =>
        /\ savedSummary.total = savedSummary.validated + savedSummary.manual
        /\ savedSummary.total = pushed
        /\ savedSummary.validatedPct =
               (IF savedSummary.total = 0 THEN 0
                ELSE exactPct(savedSummary.validated, savedSummary.total))
        /\ savedSummary.validatedPct \in 0..100

-----------------------------------------------------------------------------
(* Span matcher: a span is found whenever one exists *)

\* The span the fuzzy scan of findInContent comes up with, from offset 0.
FuzzyScan == scanStart(haystack, normalizeWs(needle), 0)

\* C29: for a needle whose normalisation is not empty, whenever the
\* normalised haystack contains the normalised needle the fuzzy scan finds a
\* substring of the haystack whose normalisation is the normalised needle
\* (the scan never runs out without a span), and findInContent returns null
\* exactly when the normalised haystack does not contain the normalised
\* needle.
C29_SpanFoundWheneverContained ==
    (mpc = "done" /\ normalizeWs(needle) # <<>>) =>
        /\ includes(normalizeWs(haystack), normalizeWs(needle)) =>
              /\ FuzzyScan # NULL
              /\ includes(haystack, FuzzyScan)
              /\ normalizeWs(FuzzyScan) = normalizeWs(needle)
        /\ (found = NULL) <=>
              ~includes(normalizeWs(haystack), normalizeWs(needle))

\* The needle does not occur verbatim, the normalised haystack contains the
\* normalised needle across a whitespace run, and the scan returned the span.
C29_Witness ==
    /\ mpc = "done"
    /\ haystack = <<"a", " ", "\t", "a">>
    /\ needle = <<"a", " ", "a">>
    /\ ~includes(haystack, needle)
    /\ found = haystack

-----------------------------------------------------------------------------
(* Source patch writer: blank currentCode *)

\* cur is empty or consists of whitespace only.
Blank(cur) == \A n \in 1..Len(cur) : cur[n] \in WS

\* C30: an approved fix whose currentCode is empty or whitespace-only never
\* causes a file write: findInContent returns the empty string for it in
\* every file of the tree, no file is offered at a prompt or written for it,
\* and once the loop is past it, it has the result "currentCode not found in
\* any file".
C30_BlankCurrentCodeNeverWritten ==
    \A k \in 1..Len(approvedFixes) :
        Blank(approvedFixes[k].currentCode) =>
            /\ \A f \in 1..Len(tree) :
                  findInContent(tree[f].content, approvedFixes[k].currentCode) = <<>>
            /\ \A n \in 1..Len(writes) : writes[n].fix # k
            /\ \A q \in 1..Len(prompts) : prompts[q].fix # k
            /\ Processed(k) =>
                  \E i \in ResultsOf(k) :
                      results[i] = PatchResult(k, 0, FALSE,
                                               "currentCode not found in any file")

-----------------------------------------------------------------------------
(* Source patch writer: the dry run as a forecast of the live run *)

\* What a dry run over tree t reports as would-apply: every approved fix
\* that matches a candidate file of t, with the first such file.
WouldApply(t) ==
    {<<k, sourceFiles[firstMatch(t, sourceFiles, approvedFixes[k].currentCode, 1)]>> :
        k \in {x \in 1..Len(approvedFixes) :
                  firstMatch(t, sourceFiles, approvedFixes[x].currentCode, 1) # 0}}

\* The fixes this run reported as would-apply, each with its file.
DryRunReported == {<<dryruns[i].fix, dryruns[i].file>> : i \in 1..Len(dryruns)}

\* The fixes this run wrote, each with the file written.
Written == {<<writes[n].fix, writes[n].file>> : n \in 1..Len(writes)}

\* The operator confirmed every prompt of the run.
AllConfirmed == \A q \in 1..Len(prompts) : prompts[q].answer = "yes"

\* C31: for the same report and source tree, the fixes a dry run reports as
\* would-apply, with the file named for each, are the fixes a live run with
\* every prompt confirmed writes, with the file written for each: a finished
\* dry run reports WouldApply of the tree it started from, and a finished
\* live run with every prompt confirmed has written exactly that set.
C31_DryRunPredictsLive ==
    (ppc = "exit0" /\ ReachedLoop) =>
        /\ dryRun => DryRunReported = WouldApply(tree0)
        /\ (~dryRun /\ AllConfirmed) => Written = WouldApply(tree0)

-----------------------------------------------------------------------------
(* Shared browser: what getStagehand hands out *)

\* C32: getStagehand never hands out a browser instance whose init() has not
\* completed successfully: under every interleaving of the tool executions,
\* and after an init() that failed, every value handed out is the one shared
\* instance, handed out only once it is initialized, and at most one
\* instance is constructed between two calls of cleanup.
C32_OnlyInitializedHandedOut ==
    /\ \A h \in 1..Len(handouts) :
          /\ handouts[h].instance # 0
          /\ handouts[h].initialized
          /\ handouts[h].instance = handouts[1].instance
    /\ Len(inst) <= 1

-----------------------------------------------------------------------------
(* Shared browser: cleanup on every exit path *)

-----------------------------------------------------------------------------
(* Report tool: the recomputed summary *)

\* The sum over issues of instanceCount, an instanceCount of 0 or a missing
\* one counting as 1.
RECURSIVE SumOfInstanceCounts(_)
SumOfInstanceCounts(list) ==
    IF list = <<>> THEN 0
    ELSE (IF Head(list).has /\ Head(list).instanceCount # 0
          THEN Head(list).instanceCount ELSE 1)
         + SumOfInstanceCounts(Tail(list))

\* C34: the report tool recomputes the summary from the issues:
\* totalAffectedElements is the sum over issues of instanceCount (0 or
\* missing counting as 1), the categoryBreakdown counts sum to the number of
\* issues, complianceScore is round(100 * passedChecks / max(1, passedChecks
\* + totalAffectedElements)) and lies in 0..100, verdict is compliant iff
\* score >= 80, partially-compliant iff 50 <= score < 80, non-compliant
\* otherwise, whatever the caller supplied for these fields.
C34_SummaryRecomputed ==
    (gpc = "done") =>
        LET f == finalSummary
            p == toolReport.summary.passedChecks
            b == f.categoryBreakdown
        IN  /\ f.totalAffectedElements = SumOfInstanceCounts(toolReport.issues)
            /\ b.content + b.cognitive + b.visual + b.motor + b.structural
                  = Len(toolReport.issues)
            /\ f.complianceScore =
                  exactPct(p, max(1, p + f.totalAffectedElements))
            /\ f.complianceScore \in 0..100
            /\ (f.verdict = "compliant") <=> (f.complianceScore >= 80)
            /\ (f.verdict = "partially-compliant")
                  <=> (f.complianceScore >= 50 /\ f.complianceScore < 80)
            /\ (f.verdict = "non-compliant") <=> (f.complianceScore < 50)

====
